---- MODULE Spec2Model ----
(***************************************************************************)
(* optAPM: the time-stepped absolute-plate-motion optimisation campaign    *)
(* of Optimised_APM.py, its configuration (Optimised_config.py) and the    *)
(* rotation file it shares between processes and time steps.               *)
(*                                                                         *)
(* One process per MPI rank (a single process, rank 0, in the serial and   *)
(* ipyparallel modes).  pc[r] is the position of rank r in the script.     *)
(***************************************************************************)
EXTENDS Integers, Sequences, FiniteSets, TLC

VARIABLES
    config,                 \* the values of Optimised_config.py for this run
    pc,                     \* rank -> position in Optimised_APM.py
    iter,                   \* rank -> index the xrange iterator of the time loop hands out next
    i,                      \* rank -> the Python variable i
    file,                   \* the rotation file on disk: [features, torn]
    rotation_model,         \* rank 0: data[0], the rotation model loaded by the data loader
    current_search_radius,  \* rank 0
    current_models,         \* rank 0
    startingConditions,     \* rank 0: the list of x produced by modelStartConditions
    x,                      \* rank -> the x values this rank optimises
    xopt,                   \* rank -> list of (xopt, minf) results
    scatterQ,               \* rank -> sub-lists scattered by the root, not yet received
    bcastQ,                 \* rank -> broadcasts of the root, not yet received
    gatherQ,                \* rank -> result lists sent to the root, not yet collected
    min_result_index,       \* rank 0: index chosen at line 500 (0-based), -1 before
    min_results_last,       \* rank 0: min_results[-1], the one element of min_results that is read
    mpi_state,              \* rank -> "initialized" | "finalized"
    writeLog,               \* history: every write of the rotation file
    readLog,                \* history: every read of the rotation file
    opt,                    \* the nlopt optimiser of one trial (run_optimisation)
    obj_f,                  \* the ObjectiveFunction of one trial, with its last call
    script                  \* the state of a stand-alone script of the repository

vars == << config, pc, iter, i, file, rotation_model, current_search_radius,
           current_models, startingConditions, x, xopt, scatterQ, bcastQ,
           gatherQ, min_result_index, min_results_last, mpi_state, writeLog, readLog,
           opt, obj_f, script >>

-----------------------------------------------------------------------------
(* Bounds of the model.                                                    *)

MaxSteps == 2       \* largest number of time steps of a campaign (len(age_range))
MaxProcs == 2       \* largest mpi_size
MaxX == 3           \* largest number of starting vectors of a step
MaxCost == 1        \* trial costs are 0..MaxCost
PartMaxN == 6       \* PartitionSpec: largest number of starting vectors
PartMaxP == 4       \* PartitionSpec: largest mpi_size
SearchSteps == 3    \* SearchSpec: number of time steps

-----------------------------------------------------------------------------
(* Optimised_config.py                                                     *)

MPI4PY == 0
IPYPARALLEL == 1
NoParallel == 2     \* stands for Python's None

interval == 10
search_radius_default == 60
models_default == 100
expanded_search_radius == 90

\* get_reference_params(age)[0] for the two kinds of data model.
get_reference_plate(data_model, age) ==
    IF data_model = "Global_1000-0_Model_2017"
    THEN IF age <= 550 THEN 701 ELSE 101
    ELSE 701

RefPlate(age) == get_reference_plate(config.data_model, age)

start_age == config.start_age

\* age_range built from the old end: start_age, start_age - interval, ...
age_range_descending(k) == start_age - k * interval

\* np.arange(end_age + interval, start_age + interval, interval), 0-based.
age_range_len == (start_age + interval - (config.end_age + interval) + interval - 1) \div interval
age_range(k) == config.end_age + interval + k * interval
AgeIndices == 0 .. (age_range_len - 1)

Ranks == 0 .. (config.mpi_size - 1)

\* The rank test left out: every process takes the coordinator's branches.
IsCoordinatorAny(r) == TRUE

\* "use_parallel != MPI4PY or mpi_rank == 0"
IsCoordinator(r) == config.use_parallel # MPI4PY \/ r = 0

-----------------------------------------------------------------------------
(* Finite rotations.  pygplates.FiniteRotation is a group under            *)
(* composition; the model uses the permutations of 1..3, the smallest      *)
(* group in which composition does not commute.                            *)

Rot == { p \in [1..3 -> 1..3] : \A a, b \in 1..3 : a # b => p[a] # p[b] }
Identity == [k \in 1..3 |-> k]
\* A * B
Mul(A, B) == [k \in 1..3 |-> A[B[k]]]
\* A.get_inverse()
Inverse(A) == [k \in 1..3 |-> CHOOSE j \in 1..3 : A[j] = k]

\* The optimised parameter vectors a trial can return, and their rotations
\* pgp.FiniteRotation((lat, lon), angle).
Vec == {"va", "vb"}

\* The angle of a parameter vector, in thousandths of a degree: "va" has
\* digits beyond the second decimal, "vb" has none.  (The pole's latitude
\* and longitude are treated alike; one component is followed.)
VecAngle(v) == IF v = "va" THEN 12347 ELSE 45670

\* round(a, 2) of an angle in thousandths of a degree.
round2(a) == ((a + 5) \div 10) * 10

\* pgp.FiniteRotation(pole, np.radians(angle)): angles that differ give
\* rotations that differ.
FiniteRotation(a) ==
    IF a = 12347 THEN <<2, 1, 3>>
    ELSE IF a = 12350 THEN <<2, 3, 1>>
    ELSE <<1, 3, 2>>

VecRotation(v) == FiniteRotation(VecAngle(v))

\* xopt = opt.optimize(x): the local optimum the optimiser reaches from the
\* starting vector x0.  (The cost it reports there depends on the data of
\* the step and is left open, see RunTrial.)
OptimumOf(x0) == IF x0 % 2 = 1 THEN "va" ELSE "vb"

\* The rotation of a plate relative to 005 at a time, as the original
\* rotation file gives it (the plate circuits of the file hang off 005).
OriginalRel005(plate, t) ==
    IF t = 0 THEN Identity
    ELSE IF plate = 701
         THEN (IF (t \div interval) % 2 = 0 THEN <<2, 3, 1>> ELSE <<3, 1, 2>>)
         ELSE <<3, 2, 1>>

-----------------------------------------------------------------------------
(* The rotation file: a list of rotation features, each a total            *)
(* reconstruction sequence (fixed plate, moving plate, time samples).      *)

Sample(t, rot) == [time |-> t, rot |-> rot]
Feature(fixed, moving, samples) == [fixed |-> fixed, moving |-> moving, samples |-> samples]

Is005_000(f) == f.moving = 5 /\ f.fixed = 0

\* The sample times a plate-rel-005 sequence of the original file carries.
SampleTimes == <<0>> \o [k \in 1 .. age_range_len |-> age_range(k - 1)]

PlateFeature(plate) ==
    Feature(5, plate, [k \in 1 .. Len(SampleTimes) |->
                          Sample(SampleTimes[k], OriginalRel005(plate, SampleTimes[k]))])

\* A 005-000 sequence left in the original rotation file by earlier work.
Old005_000 == Feature(0, 5, << Sample(0, Identity), Sample(age_range(0), <<2, 1, 3>>) >>)

\* The original rotation file of the run (original_rotfile).
OriginalFeatures ==
    << PlateFeature(701) >>
    \o [k \in 1 .. config.original_005 |-> Old005_000]
    \o << PlateFeature(101) >>

\* pgp.RotationModel(features).get_rotation(t, plate, fixed_plate_id=5)
get_rotation(features, t, plate) ==
    LET fs == { k \in 1 .. Len(features) :
                    features[k].moving = plate /\ features[k].fixed = 5 }
        f  == features[CHOOSE k \in fs : \A j \in fs : k <= j]
        ss == { k \in 1 .. Len(f.samples) : f.samples[k].time = t }
    IN  IF fs = {} \/ ss = {} THEN Identity
        ELSE f.samples[CHOOSE k \in ss : \A j \in ss : k <= j].rot

RECURSIVE SelectSeq2(_, _)
\* [f for f in features if not Is005_000(f)]
SelectSeq2(features, keep005) ==
    IF features = << >> THEN << >>
    ELSE IF Is005_000(Head(features)) = keep005
         THEN << Head(features) >> \o SelectSeq2(Tail(features), keep005)
         ELSE SelectSeq2(Tail(features), keep005)

\* No feature removed.
rotation_features_all(features) == features

rotation_features_except_005_000(features) == SelectSeq2(features, FALSE)

\* The samples without the inversion of line 158.
zero_rotation_time_samples_not_inverted(features) ==
    << Sample(0, Identity) >>
    \o [k \in 1 .. age_range_len |->
          Sample(age_range(k - 1),
                 get_rotation(features, age_range(k - 1), RefPlate(age_range(k - 1))))]

\* zero_rotation_time_samples_005_rel_000
zero_rotation_time_samples_005_rel_000(features) ==
    << Sample(0, Identity) >>
    \o [k \in 1 .. age_range_len |->
          Sample(age_range(k - 1),
                 Inverse(get_rotation(features, age_range(k - 1), RefPlate(age_range(k - 1)))))]

\* The features the one-time setup writes to the rotation file.
SetupFeatures ==
    rotation_features_except_005_000(OriginalFeatures)
    \o << Feature(0, 5, zero_rotation_time_samples_005_rel_000(OriginalFeatures)) >>

\* What a reader of the rotation file gets: the features, unless a write is
\* in progress, when the file on disk is incomplete.
Torn == << Feature(-1, -1, << >>) >>
ReadFile == IF file.torn THEN Torn ELSE file.features

\* The number of writes of the rotation file that have completed.
WritesDone == Cardinality({ k \in 1 .. Len(writeLog) : writeLog[k].done })

\* History record of a read of the rotation file by rank r: the step it is
\* in, who reads, how many writes had begun and had completed, and what the
\* reader got.
ReadRecord(r, kind, what) ==
    [rank |-> r, kind |-> kind, step |-> iter[r] - 1, begun |-> Len(writeLog),
     writes |-> WritesDone, torn |-> file.torn, features |-> what]

-----------------------------------------------------------------------------
(* The search widening of the time loop (lines 238-256).                   *)

\* 1.0 - math.cos(0.5 * math.radians(radius)), in millionths, for the
\* search radii (in degrees) the configuration uses.
OneMinusCosHalf(radius) ==
    CASE radius = 15 -> 8555
      [] radius = 30 -> 34074
      [] radius = 60 -> 133975
      [] radius = 90 -> 292893

\* "expand_search_radius_on_ref_plate_switches and i > 0 and search == 'Initial'"
\* and "ref_rotation_plate_id != last_ref_rotation_plate_id"
RefPlateSwitchExpands(k) ==
    /\ config.expand
    /\ k > 0
    /\ config.search = "Initial"
    /\ RefPlate(age_range(k)) # RefPlate(age_range(k - 1))

\* The search radius never widened.
CurrentSearchRadiusFixed(k) == config.search_radius

\* The search radius without line 238: what the step before left, unless
\* this step widens.
CurrentSearchRadiusNotReset(k) ==
    IF RefPlateSwitchExpands(k) THEN expanded_search_radius
    ELSE IF k > 0 THEN current_search_radius ELSE config.search_radius

\* current_search_radius at step k
CurrentSearchRadius(k) ==
    IF RefPlateSwitchExpands(k) THEN expanded_search_radius ELSE config.search_radius

\* int(ratio * models): the product truncated instead of rounded.
ScaledModelsTruncated(new_radius, old_radius, models) ==
    (OneMinusCosHalf(new_radius) * models) \div OneMinusCosHalf(old_radius)

\* int(ratio * models + 0.5), the ratio being that of two values in millionths
ScaledModels(new_radius, old_radius, models) ==
    (2 * OneMinusCosHalf(new_radius) * models + OneMinusCosHalf(old_radius))
        \div (2 * OneMinusCosHalf(old_radius))

\* current_models at step k
CurrentModels(k) ==
    IF RefPlateSwitchExpands(k)
    THEN ScaledModels(expanded_search_radius, config.search_radius, config.models)
    ELSE config.models

-----------------------------------------------------------------------------
(* Dispatch of the trials of a step (lines 281-325 and 445-501).           *)

\* The division without its second loop: the remaining x values are not
\* distributed.
PartitionNoRemainder(xs, size) ==
    IF Len(xs) < size
    THEN [r \in 0 .. (size - 1) |-> IF r < Len(xs) THEN << xs[r + 1] >> ELSE << >>]
    ELSE LET num_x_per_rank == Len(xs) \div size
         IN  [r \in 0 .. (size - 1) |->
                SubSeq(xs, r * num_x_per_rank + 1, r * num_x_per_rank + num_x_per_rank)]

\* The division with the remaining x values handed to the last processes.
PartitionExtrasLast(xs, size) ==
    IF Len(xs) < size
    THEN [r \in 0 .. (size - 1) |-> IF r < Len(xs) THEN << xs[r + 1] >> ELSE << >>]
    ELSE LET num_x_per_rank == Len(xs) \div size
             extra == Len(xs) - size * num_x_per_rank
         IN  [r \in 0 .. (size - 1) |->
                SubSeq(xs, r * num_x_per_rank + 1, r * num_x_per_rank + num_x_per_rank)
                \o (IF r >= size - extra
                    THEN << xs[size * num_x_per_rank + (r - (size - extra)) + 1] >>
                    ELSE << >>)]

\* xStartingCondition as the root process divides it among mpi_size
\* processes: a function from rank to the rank's sub-list.
Partition(xs, size) ==
    IF Len(xs) < size
    THEN [r \in 0 .. (size - 1) |-> IF r < Len(xs) THEN << xs[r + 1] >> ELSE << >>]
    ELSE LET num_x_per_rank == Len(xs) \div size
         IN  [r \in 0 .. (size - 1) |->
                SubSeq(xs, r * num_x_per_rank + 1, r * num_x_per_rank + num_x_per_rank)
                \o (IF size * num_x_per_rank + r < Len(xs)
                    THEN << xs[size * num_x_per_rank + r + 1] >>
                    ELSE << >>)]

RECURSIVE ChainFrom(_, _, _)
\* list(itertools.chain.from_iterable(lists)), lists indexed by rank r .. size-1
ChainFrom(lists, r, size) ==
    IF r >= size THEN << >> ELSE lists[r] \o ChainFrom(lists, r + 1, size)

Flatten(lists, size) == ChainFrom(lists, 0, size)

\* np.min(results)
NpMin(results) ==
    CHOOSE m \in { results[k] : k \in 1 .. Len(results) } :
        \A k \in 1 .. Len(results) : m <= results[k]

\* np.where(results == np.min(results))[0][-1]: the last minimum.
MinResultIndexLast(results) ==
    CHOOSE k \in 1 .. Len(results) :
        /\ \A j \in 1 .. Len(results) : results[k] <= results[j]
        /\ \A j \in (k + 1) .. Len(results) : results[j] # results[k]

\* np.where(results == np.min(results))[0][0], as a 1-based index
MinResultIndex(results) ==
    CHOOSE k \in 1 .. Len(results) :
        /\ results[k] = NpMin(results)
        /\ \A j \in 1 .. (k - 1) : results[j] # NpMin(results)

\* results = [xopt[i][1] for i in range(len(xopt))]
Costs(list) == [k \in 1 .. Len(list) |-> list[k].minf]

\* One trial: its starting vector, the optimiser's xopt and minf.
TrialResult(x0, v, c) == [x0 |-> x0, xopt |-> v, minf |-> c]

-----------------------------------------------------------------------------
(* The campaign: Optimised_APM.py, __main__.                               *)

\* The configurations of a campaign: every parallelisation method and
\* process count, over the ages at which the reference plate of the 1 Ga
\* model switches from 701 to 101, with the search parameters as configured.
Configs ==
    { c \in [ use_parallel : {MPI4PY, IPYPARALLEL, NoParallel},
              mpi_size     : 1 .. MaxProcs,
              end_age      : {540},
              start_age    : {540 + MaxSteps * interval},
              data_model   : {"Global_1000-0_Model_2017"},
              expand       : {FALSE},
              search       : {"Initial"},
              search_radius : {search_radius_default},
              models       : {models_default},
              original_005 : {1} ] :
        c.use_parallel # MPI4PY => c.mpi_size = 1 }

NoResult == [x0 |-> 0, xopt |-> "none", minf |-> 0]

\* No trial is being looked at on its own.
NoOpt == [state |-> "none"]
NoObjF == [calls |-> -1]

\* No stand-alone script of the repository is being followed.
NoScript == [name |-> "none"]

NoRead == [rank |-> -1, kind |-> "none", step |-> -1, begun |-> -1, writes |-> -1,
           torn |-> FALSE, features |-> << >>]

Init ==
    /\ config \in Configs
    /\ pc = [r \in Ranks |-> IF IsCoordinator(r) THEN "setup" ELSE "loop"]
    /\ iter = [r \in Ranks |-> 0]
    /\ i = [r \in Ranks |-> -1]
    /\ file = [features |-> << >>, torn |-> FALSE, pending |-> << >>]
    /\ rotation_model = << >>
    /\ current_search_radius = 0
    /\ current_models = 0
    /\ startingConditions = << >>
    /\ x = [r \in Ranks |-> << >>]
    /\ xopt = [r \in Ranks |-> << >>]
    /\ scatterQ = [r \in Ranks |-> << >>]
    /\ bcastQ = [r \in Ranks |-> << >>]
    /\ gatherQ = [r \in Ranks |-> << >>]
    /\ min_result_index = -1
    /\ min_results_last = NoResult
    /\ mpi_state = [r \in Ranks |-> IF config.use_parallel = MPI4PY THEN "initialized" ELSE "none"]
    /\ writeLog = << >>
    /\ readLog = [r \in Ranks |-> NoRead]
    /\ opt = NoOpt
    /\ script = NoScript
    /\ obj_f = NoObjF

\* ref_rotation_start_age = age_range[i] of the iteration rank r is in
ref_rotation_start_age(r) == age_range(iter[r] - 1)

\* pgp.FeatureCollection(features).write(rotation_file), up to the point
\* where the file is complete on disk again.
BeginWrite(r, kind, features) ==
    /\ file' = [features |-> file.features, torn |-> TRUE, pending |-> features]
    /\ writeLog' = Append(writeLog,
                          [by |-> r, kind |-> kind, step |-> iter[r] - 1,
                           age |-> age_range(iter[r] - 1),
                           selected |-> min_result_index, features |-> features,
                           done |-> FALSE])

\* A write that returns without its content reaching the disk.
EndWriteLost ==
    /\ file' = [features |-> file.features, torn |-> FALSE, pending |-> << >>]
    /\ writeLog' = [writeLog EXCEPT ![Len(writeLog)].done = TRUE]

EndWrite ==
    /\ file' = [features |-> file.pending, torn |-> FALSE, pending |-> << >>]
    /\ writeLog' = [writeLog EXCEPT ![Len(writeLog)].done = TRUE]

\* Lines 113-173: the coordinating process copies the original rotation
\* file with a zeroed 005-000 sequence and starts writing it.
SetupBegin(r) ==
    /\ pc[r] = "setup"
    /\ IsCoordinator(r)
    /\ BeginWrite(r, "setup", SetupFeatures)
    /\ pc' = [pc EXCEPT ![r] = "setup_write"]
    /\ UNCHANGED << script, opt, obj_f, config, iter, i, rotation_model, current_search_radius, current_models,
                    startingConditions, x, xopt, scatterQ, bcastQ, gatherQ,
                    min_result_index, min_results_last, mpi_state, readLog >>

\* Line 173 returns: the rotation file is on disk.
SetupEnd(r) ==
    /\ pc[r] = "setup_write"
    /\ EndWrite
    /\ pc' = [pc EXCEPT ![r] = "loop"]
    /\ UNCHANGED << script, opt, obj_f, config, iter, i, rotation_model, current_search_radius, current_models,
                    startingConditions, x, xopt, scatterQ, bcastQ, gatherQ,
                    min_result_index, min_results_last, mpi_state, readLog >>

\* The time loop as a counting loop on the variable i itself, which the loop
\* of line 496 has changed: the next index is i + 1.
LoadContextRebound(r) ==
    /\ pc[r] = "loop"
    /\ IsCoordinator(r)
    /\ i[r] + 1 < age_range_len
    /\ i' = [i EXCEPT ![r] = i[r] + 1]
    /\ iter' = [iter EXCEPT ![r] = i[r] + 2]
    /\ current_search_radius' = CurrentSearchRadius(i[r] + 1)
    /\ current_models' = CurrentModels(i[r] + 1)
    /\ rotation_model' = ReadFile
    /\ readLog' = [readLog EXCEPT ![r] =
                     [ReadRecord(r, "loader", ReadFile) EXCEPT !.step = i[r] + 1]]
    /\ \E n \in 1 .. MaxX :
          /\ startingConditions' = [k \in 1 .. n |-> k]
          /\ IF config.use_parallel = MPI4PY
             THEN /\ pc' = [pc EXCEPT ![r] = "scatter"]
                  /\ UNCHANGED << x, xopt >>
             ELSE /\ pc' = [pc EXCEPT ![r] = "run"]
                  /\ x' = [x EXCEPT ![r] = [k \in 1 .. n |-> k]]
                  /\ xopt' = [xopt EXCEPT ![r] = << >>]
    /\ UNCHANGED << script, opt, obj_f, config, file, scatterQ, bcastQ, gatherQ,
                    min_result_index, min_results_last, mpi_state, writeLog >>

\* Lines 216-278 on the coordinating process: next age of the loop, search
\* radius and model count, data loader, starting conditions.
LoadContext(r) ==
    /\ pc[r] = "loop"
    /\ IsCoordinator(r)
    /\ iter[r] < age_range_len
    /\ i' = [i EXCEPT ![r] = iter[r]]
    /\ iter' = [iter EXCEPT ![r] = iter[r] + 1]
    /\ current_search_radius' = CurrentSearchRadius(iter[r])
    /\ current_models' = CurrentModels(iter[r])
    /\ rotation_model' = ReadFile
    /\ readLog' = [readLog EXCEPT ![r] =
                     [ReadRecord(r, "loader", ReadFile) EXCEPT !.step = iter[r]]]
    /\ \E n \in 1 .. MaxX :
          /\ startingConditions' = [k \in 1 .. n |-> k]
          /\ IF config.use_parallel = MPI4PY
             THEN /\ pc' = [pc EXCEPT ![r] = "scatter"]
                  /\ UNCHANGED << x, xopt >>
             ELSE /\ pc' = [pc EXCEPT ![r] = "run"]
                  /\ x' = [x EXCEPT ![r] = [k \in 1 .. n |-> k]]
                  /\ xopt' = [xopt EXCEPT ![r] = << >>]
    /\ UNCHANGED << script, opt, obj_f, config, file, scatterQ, bcastQ, gatherQ,
                    min_result_index, min_results_last, mpi_state, writeLog >>

\* Lines 283-316 on rank 0: partition the x list and scatter it.
RootScatter(r) ==
    /\ pc[r] = "scatter"
    /\ LET xStartingCondition == Partition(startingConditions, config.mpi_size)
       IN  /\ scatterQ' = [q \in Ranks |->
                             IF q = r THEN scatterQ[q]
                             ELSE Append(scatterQ[q], xStartingCondition[q])]
           /\ x' = [x EXCEPT ![r] = xStartingCondition[r]]
    /\ pc' = [pc EXCEPT ![r] = "bcast"]
    /\ UNCHANGED << script, opt, obj_f, config, iter, i, file, rotation_model, current_search_radius,
                    current_models, startingConditions, xopt, bcastQ, gatherQ,
                    min_result_index, min_results_last, mpi_state, writeLog, readLog >>

\* Line 319 on rank 0: broadcast the constant starting conditions.
RootBcast(r) ==
    /\ pc[r] = "bcast"
    /\ r = 0
    /\ bcastQ' = [q \in Ranks |->
                    IF q = r THEN bcastQ[q]
                    ELSE Append(bcastQ[q], ref_rotation_start_age(r))]
    /\ xopt' = [xopt EXCEPT ![r] = << >>]
    /\ pc' = [pc EXCEPT ![r] = "run"]
    /\ UNCHANGED << script, opt, obj_f, config, iter, i, file, rotation_model, current_search_radius,
                    current_models, startingConditions, x, scatterQ, gatherQ,
                    min_result_index, min_results_last, mpi_state, writeLog, readLog >>

\* Lines 216-316 on a rank other than 0: next age of the loop, then the
\* scatter, which returns once the root's sub-list has arrived.
WorkerScatter(r) ==
    /\ pc[r] = "loop"
    /\ ~IsCoordinator(r)
    /\ iter[r] < age_range_len
    /\ scatterQ[r] # << >>
    /\ i' = [i EXCEPT ![r] = iter[r]]
    /\ iter' = [iter EXCEPT ![r] = iter[r] + 1]
    /\ x' = [x EXCEPT ![r] = Head(scatterQ[r])]
    /\ scatterQ' = [scatterQ EXCEPT ![r] = Tail(scatterQ[r])]
    /\ pc' = [pc EXCEPT ![r] = "bcast"]
    /\ UNCHANGED << script, opt, obj_f, config, file, rotation_model, current_search_radius, current_models,
                    startingConditions, xopt, bcastQ, gatherQ,
                    min_result_index, min_results_last, mpi_state, writeLog, readLog >>

\* Line 319 on a rank other than 0: the broadcast returns once the root's
\* value has arrived.
WorkerBcast(r) ==
    /\ pc[r] = "bcast"
    /\ r # 0
    /\ bcastQ[r] # << >>
    /\ bcastQ' = [bcastQ EXCEPT ![r] = Tail(bcastQ[r])]
    /\ xopt' = [xopt EXCEPT ![r] = << >>]
    /\ pc' = [pc EXCEPT ![r] = "run"]
    /\ UNCHANGED << script, opt, obj_f, config, iter, i, file, rotation_model, current_search_radius,
                    current_models, startingConditions, x, scatterQ, gatherQ,
                    min_result_index, min_results_last, mpi_state, writeLog, readLog >>

\* run_optimisation(x_item) for the next x_item of the rank's list: the
\* ObjectiveFunction is constructed (reading the rotation file), the
\* optimiser runs, and (xopt, minf) is appended to the rank's results.
RunTrial(r) ==
    /\ pc[r] = "run"
    /\ Len(xopt[r]) < Len(x[r])
    /\ readLog' = [readLog EXCEPT ![r] = ReadRecord(r, "trial", ReadFile)]
    /\ \E c \in 0 .. MaxCost :
          LET x_item == x[r][Len(xopt[r]) + 1]
          IN  xopt' = [xopt EXCEPT ![r] =
                         Append(xopt[r], TrialResult(x_item, OptimumOf(x_item), c))]
    /\ UNCHANGED << script, opt, obj_f, config, pc, iter, i, file, rotation_model, current_search_radius,
                    current_models, startingConditions, x, scatterQ, bcastQ, gatherQ,
                    min_result_index, min_results_last, mpi_state, writeLog >>

\* Line 464 on a rank other than 0: send the rank's results to the root and
\* go back to the loop head.  (x and xopt are not read again before the next
\* iteration assigns them; the model empties them here.)
GatherSend(r) ==
    /\ pc[r] = "run"
    /\ config.use_parallel = MPI4PY
    /\ r # 0
    /\ Len(xopt[r]) = Len(x[r])
    /\ gatherQ' = [gatherQ EXCEPT ![r] = Append(gatherQ[r], xopt[r])]
    /\ pc' = [pc EXCEPT ![r] = "loop"]
    /\ x' = [x EXCEPT ![r] = << >>]
    /\ xopt' = [xopt EXCEPT ![r] = << >>]
    /\ UNCHANGED << script, opt, obj_f, config, iter, i, file, rotation_model, current_search_radius,
                    current_models, startingConditions, scatterQ, bcastQ,
                    min_result_index, min_results_last, mpi_state, writeLog, readLog >>

\* A gather that returns on rank 0 with whatever has arrived so far.
GatherRootNoWait(r) ==
    /\ pc[r] = "run"
    /\ config.use_parallel = MPI4PY
    /\ r = 0
    /\ Len(xopt[r]) = Len(x[r])
    /\ xopt' = [xopt EXCEPT ![r] =
                  Flatten([q \in Ranks |->
                             IF q = r THEN xopt[r]
                             ELSE IF gatherQ[q] # << >> THEN Head(gatherQ[q]) ELSE << >>],
                          config.mpi_size)]
    /\ gatherQ' = [q \in Ranks |->
                     IF q = r \/ gatherQ[q] = << >> THEN gatherQ[q] ELSE Tail(gatherQ[q])]
    /\ pc' = [pc EXCEPT ![r] = "select"]
    /\ UNCHANGED << script, opt, obj_f, config, iter, i, file, rotation_model, current_search_radius,
                    current_models, startingConditions, x, scatterQ, bcastQ,
                    min_result_index, min_results_last, mpi_state, writeLog, readLog >>

\* Lines 464-471 on rank 0: the gather returns once every rank's list has
\* arrived; the lists are chained in rank order.
GatherRoot(r) ==
    /\ pc[r] = "run"
    /\ config.use_parallel = MPI4PY
    /\ r = 0
    /\ Len(xopt[r]) = Len(x[r])
    /\ \A q \in Ranks \ {r} : gatherQ[q] # << >>
    /\ xopt' = [xopt EXCEPT ![r] =
                  Flatten([q \in Ranks |-> IF q = r THEN xopt[r] ELSE Head(gatherQ[q])],
                          config.mpi_size)]
    /\ gatherQ' = [q \in Ranks |-> IF q = r THEN gatherQ[q] ELSE Tail(gatherQ[q])]
    /\ pc' = [pc EXCEPT ![r] = "select"]
    /\ UNCHANGED << script, opt, obj_f, config, iter, i, file, rotation_model, current_search_radius,
                    current_models, startingConditions, x, scatterQ, bcastQ,
                    min_result_index, min_results_last, mpi_state, writeLog, readLog >>

\* A map that returns before the trials have finished (dview.block left
\* False): the list holds the results so far.
MapDoneEarly(r) ==
    /\ pc[r] = "run"
    /\ config.use_parallel # MPI4PY
    /\ pc' = [pc EXCEPT ![r] = "select"]
    /\ Len(xopt[r]) >= 1
    /\ UNCHANGED << script, opt, obj_f, config, iter, i, file, rotation_model, current_search_radius,
                    current_models, startingConditions, x, xopt, scatterQ, bcastQ, gatherQ,
                    min_result_index, min_results_last, mpi_state, writeLog, readLog >>

\* Lines 448 and 478: dview.map(runopt, x) or the serial list comprehension
\* has returned the results in the order of x.
MapDone(r) ==
    /\ pc[r] = "run"
    /\ config.use_parallel # MPI4PY
    /\ Len(xopt[r]) = Len(x[r])
    /\ pc' = [pc EXCEPT ![r] = "select"]
    /\ UNCHANGED << script, opt, obj_f, config, iter, i, file, rotation_model, current_search_radius,
                    current_models, startingConditions, x, xopt, scatterQ, bcastQ, gatherQ,
                    min_result_index, min_results_last, mpi_state, writeLog, readLog >>

\* rmin[0] of pr.sortAndPlot (lines 515-531): the result of least cost, the
\* first of them in the order of the list.
sortAndPlot_rmin(list) == list[MinResultIndex(Costs(list))]

\* Lines 491-534: the minimum result of the step.  The loop of line 496
\* rebinds i.
SelectBest(r) ==
    /\ pc[r] = "select"
    /\ IsCoordinator(r)
    /\ min_result_index' = MinResultIndex(Costs(xopt[r])) - 1
    /\ min_results_last' = sortAndPlot_rmin(xopt[r])
    /\ i' = [i EXCEPT ![r] = Len(xopt[r]) - 1]
    /\ pc' = [pc EXCEPT ![r] = "update"]
    /\ UNCHANGED << script, opt, obj_f, config, iter, file, rotation_model, current_search_radius,
                    current_models, startingConditions, x, xopt, scatterQ, bcastQ, gatherQ,
                    mpi_state, writeLog, readLog >>

\* Lines 551-559: index of the first 005-000 feature of the list, 0 if none.
FirstIndex005_000(features) ==
    LET ks == { k \in 1 .. Len(features) : Is005_000(features[k]) }
    IN  IF ks = {} THEN 0 ELSE CHOOSE k \in ks : \A j \in ks : k <= j

\* Every sample from time t on set to the rotation.
UpdatedFeaturesFromTime(features, t, rot) ==
    LET k == FirstIndex005_000(features)
    IN  IF k = 0 THEN features
        ELSE [features EXCEPT ![k].samples =
                 [n \in 1 .. Len(features[k].samples) |->
                    IF features[k].samples[n].time >= t
                    THEN Sample(features[k].samples[n].time, rot)
                    ELSE features[k].samples[n]]]

\* Lines 563-582: the features with every sample at time t of the first
\* 005-000 sequence set to the rotation rot.
UpdatedFeatures(features, t, rot) ==
    LET k == FirstIndex005_000(features)
    IN  IF k = 0 THEN features
        ELSE [features EXCEPT ![k].samples =
                 [n \in 1 .. Len(features[k].samples) |->
                    IF features[k].samples[n].time = t
                    THEN Sample(t, rot)
                    ELSE features[k].samples[n]]]

\* Lines 567-569: new_rotation_ref_plate_rel_000, from the components of
\* min_results[-1] rounded to two decimals.
new_rotation_ref_plate_rel_000(winner) == FiniteRotation(round2(VecAngle(winner.xopt)))

\* The reference plate's rotation relative to 005 left in: the rotation
\* relative to 000 is stored as the 005-000 sample.
new_rotation_005_rel_000_not_removed(model, t, plate, winner) ==
    new_rotation_ref_plate_rel_000(winner)

\* Lines 567-580: new_rotation_005_rel_000
new_rotation_005_rel_000(model, t, plate, winner) ==
    Mul(new_rotation_ref_plate_rel_000(winner), Inverse(get_rotation(model, t, plate)))

\* Lines 549-586: the coordinating process reads the rotation file, puts the
\* step's result into the 005-000 sequence and starts writing the file.
UpdateBegin(r) ==
    /\ pc[r] = "update"
    /\ IsCoordinator(r)
    /\ readLog' = [readLog EXCEPT ![r] = ReadRecord(r, "update", ReadFile)]
    /\ BeginWrite(r, "update",
                  UpdatedFeatures(ReadFile, ref_rotation_start_age(r),
                                  new_rotation_005_rel_000(rotation_model,
                                      ref_rotation_start_age(r),
                                      RefPlate(ref_rotation_start_age(r)),
                                      min_results_last)))
    /\ pc' = [pc EXCEPT ![r] = "update_write"]
    /\ UNCHANGED << script, opt, obj_f, config, iter, i, rotation_model, current_search_radius, current_models,
                    startingConditions, x, xopt, scatterQ, bcastQ, gatherQ,
                    min_result_index, min_results_last, mpi_state >>

\* Line 586 returns: the rotation file is on disk; back to the loop head.
\* (The step's lists and minimum are not read again before the next
\* iteration assigns them; the model empties them here.)
UpdateEnd(r) ==
    /\ pc[r] = "update_write"
    /\ EndWrite
    /\ pc' = [pc EXCEPT ![r] = "loop"]
    /\ startingConditions' = << >>
    /\ x' = [x EXCEPT ![r] = << >>]
    /\ xopt' = [xopt EXCEPT ![r] = << >>]
    /\ min_result_index' = -1
    /\ min_results_last' = NoResult
    /\ UNCHANGED << script, opt, obj_f, config, iter, i, rotation_model, current_search_radius, current_models,
                    scatterQ, bcastQ, gatherQ, mpi_state, readLog >>

\* Lines 216 and 592-614: the loop is exhausted and the process ends; MPI is
\* finalized when the interpreter exits.
LoopEnd(r) ==
    /\ pc[r] = "loop"
    /\ iter[r] >= age_range_len
    /\ pc' = [pc EXCEPT ![r] = "done"]
    /\ mpi_state' = [mpi_state EXCEPT ![r] =
                       IF config.use_parallel = MPI4PY THEN "finalized" ELSE mpi_state[r]]
    /\ UNCHANGED << script, opt, obj_f, config, iter, i, file, rotation_model, current_search_radius,
                    current_models, startingConditions, x, xopt, scatterQ, bcastQ, gatherQ,
                    min_result_index, min_results_last, writeLog, readLog >>

Running(r) == pc[r] \notin {"done", "raised", "aborted"}

\* The hook without its call of Abort.
HookNeverAborts(r) == FALSE

\* Lines 90-96: "not MPI.Is_finalized() and MPI.Is_initialized()", in a
\* process where the hook is installed (line 71).
HookAborts(r) == config.use_parallel = MPI4PY /\ mpi_state[r] = "initialized"

\* An unhandled exception in process r, at any point of the script.  Python
\* calls sys.excepthook in the raising process before it exits: the
\* traceback is printed and, under mpi4py, MPI.COMM_WORLD.Abort(1) ends every
\* process of the job that is still alive.
Raise(r) ==
    /\ Running(r)
    /\ IF HookAborts(r)
       THEN pc' = [q \in Ranks |->
                     IF q = r THEN "raised"
                     ELSE IF pc[q] = "done" THEN "done" ELSE "aborted"]
       ELSE pc' = [pc EXCEPT ![r] = "raised"]
    /\ UNCHANGED << script, opt, obj_f, config, iter, i, file, rotation_model, current_search_radius,
                    current_models, startingConditions, x, xopt, scatterQ, bcastQ, gatherQ,
                    min_result_index, min_results_last, mpi_state, writeLog, readLog >>

Next ==
    \/ \E r \in Ranks : SetupBegin(r)
    \/ \E r \in Ranks : SetupEnd(r)
    \/ \E r \in Ranks : LoadContext(r)
    \/ \E r \in Ranks : RootScatter(r)
    \/ \E r \in Ranks : RootBcast(r)
    \/ \E r \in Ranks : WorkerScatter(r)
    \/ \E r \in Ranks : WorkerBcast(r)
    \/ \E r \in Ranks : RunTrial(r)
    \/ \E r \in Ranks : GatherSend(r)
    \/ \E r \in Ranks : GatherRoot(r)
    \/ \E r \in Ranks : MapDone(r)
    \/ \E r \in Ranks : SelectBest(r)
    \/ \E r \in Ranks : UpdateBegin(r)
    \/ \E r \in Ranks : UpdateEnd(r)
    \/ \E r \in Ranks : LoopEnd(r)
    \/ \E r \in Ranks : Raise(r)

Spec == Init /\ [][Next]_vars

-----------------------------------------------------------------------------
(* The partition and scatter of one step on its own, over more starting    *)
(* vectors and processes than the campaign above runs with.                *)

SetupWrite ==
    [by |-> 0, kind |-> "setup", step |-> -1, age |-> config.end_age, selected |-> -1,
     features |-> SetupFeatures, done |-> TRUE]

\* The state of the processes when rank 0 has loaded the first step with
\* the given starting conditions and is about to scatter them.
LoadedFirstStep(xs) ==
    /\ pc = [r \in Ranks |-> IF r = 0 THEN "scatter" ELSE "loop"]
    /\ iter = [r \in Ranks |-> IF r = 0 THEN 1 ELSE 0]
    /\ i = [r \in Ranks |-> IF r = 0 THEN 0 ELSE -1]
    /\ file = [features |-> SetupFeatures, torn |-> FALSE, pending |-> << >>]
    /\ rotation_model = SetupFeatures
    /\ current_search_radius = CurrentSearchRadius(0)
    /\ current_models = CurrentModels(0)
    /\ startingConditions = xs
    /\ x = [r \in Ranks |-> << >>]
    /\ xopt = [r \in Ranks |-> << >>]
    /\ scatterQ = [r \in Ranks |-> << >>]
    /\ bcastQ = [r \in Ranks |-> << >>]
    /\ gatherQ = [r \in Ranks |-> << >>]
    /\ min_result_index = -1
    /\ min_results_last = NoResult
    /\ mpi_state = [r \in Ranks |-> "initialized"]
    /\ writeLog = << SetupWrite >>
    /\ readLog = [r \in Ranks |->
                    IF r = 0
                    THEN [rank |-> 0, kind |-> "loader", step |-> 0, begun |-> 1,
                          writes |-> 1, torn |-> FALSE, features |-> SetupFeatures]
                    ELSE NoRead]
    /\ opt = NoOpt
    /\ script = NoScript
    /\ obj_f = NoObjF

PartitionConfigs ==
    [ use_parallel : {MPI4PY},
      mpi_size     : 1 .. PartMaxP,
      end_age      : {540},
      start_age    : {540 + MaxSteps * interval},
      data_model   : {"Global_1000-0_Model_2017"},
      expand       : {FALSE},
      search       : {"Initial"},
      search_radius : {search_radius_default},
      models       : {models_default},
      original_005 : {1} ]

PartitionInit ==
    /\ config \in PartitionConfigs
    /\ \E n \in 0 .. PartMaxN : LoadedFirstStep([k \in 1 .. n |-> k])

PartitionNext ==
    \/ \E r \in Ranks : RootScatter(r)
    \/ \E r \in Ranks : WorkerScatter(r)

PartitionSpec == PartitionInit /\ [][PartitionNext]_vars

-----------------------------------------------------------------------------
(* The head of the time loop on its own (lines 216-256), over the search   *)
(* configurations of Optimised_config.py.                                  *)

SearchConfigs ==
    [ use_parallel : {NoParallel},
      mpi_size     : {1},
      end_age      : {0, 530, 540},
      start_age    : {0},
      data_model   : {"Global_1000-0_Model_2017", "Global_Model_WD_Internal_Release_2019_v2"},
      expand       : BOOLEAN,
      search       : {"Initial", "Secondary"},
      search_radius : {15, 30, search_radius_default},
      models       : {60, models_default},
      original_005 : {1} ]

SearchInit ==
    /\ \E c \in SearchConfigs :
          config = [c EXCEPT !.start_age = c.end_age + SearchSteps * interval]
    /\ pc = [r \in Ranks |-> "loop"]
    /\ iter = [r \in Ranks |-> 0]
    /\ i = [r \in Ranks |-> -1]
    /\ file = [features |-> SetupFeatures, torn |-> FALSE, pending |-> << >>]
    /\ rotation_model = << >>
    /\ current_search_radius = 0
    /\ current_models = 0
    /\ startingConditions = << >>
    /\ x = [r \in Ranks |-> << >>]
    /\ xopt = [r \in Ranks |-> << >>]
    /\ scatterQ = [r \in Ranks |-> << >>]
    /\ bcastQ = [r \in Ranks |-> << >>]
    /\ gatherQ = [r \in Ranks |-> << >>]
    /\ min_result_index = -1
    /\ min_results_last = NoResult
    /\ mpi_state = [r \in Ranks |-> "none"]
    /\ writeLog = << SetupWrite >>
    /\ readLog = [r \in Ranks |-> NoRead]
    /\ opt = NoOpt
    /\ script = NoScript
    /\ obj_f = NoObjF

\* One iteration of the time loop as far as the search goes: the search
\* radius and model count of the step (lines 216-256), which the rest of
\* the iteration reads and does not assign, and the variable i, which the
\* loop of line 496 leaves at the index of the step's last result.
SearchStep(r) ==
    /\ pc[r] = "loop"
    /\ IsCoordinator(r)
    /\ iter[r] < age_range_len
    /\ \E n \in 1 .. MaxX : i' = [i EXCEPT ![r] = n - 1]
    /\ iter' = [iter EXCEPT ![r] = iter[r] + 1]
    /\ current_search_radius' = CurrentSearchRadius(iter[r])
    /\ current_models' = CurrentModels(iter[r])
    /\ UNCHANGED << script, opt, obj_f, config, pc, file, rotation_model, startingConditions, x, xopt,
                    scatterQ, bcastQ, gatherQ, min_result_index, min_results_last,
                    mpi_state, writeLog, readLog >>

SearchNext ==
    \/ \E r \in Ranks : SearchStep(r)
    \/ \E r \in Ranks : LoopEnd(r)

SearchSpec == SearchInit /\ [][SearchNext]_vars

-----------------------------------------------------------------------------
(* The one-time setup on its own (lines 113-173), over original rotation   *)
(* files with no, one or several 005-000 sequences.                        *)

MaxOld005 == 2      \* largest number of 005-000 sequences in the original file

SetupConfigs ==
    { c \in [ use_parallel : {MPI4PY, IPYPARALLEL, NoParallel},
              mpi_size     : 1 .. MaxProcs,
              end_age      : {0, 530, 540},
              start_age    : {0},
              data_model   : {"Global_1000-0_Model_2017",
                              "Global_Model_WD_Internal_Release_2019_v2"},
              expand       : {FALSE},
              search       : {"Initial"},
              search_radius : {search_radius_default},
              models       : {models_default},
              original_005 : 0 .. MaxOld005 ] :
        c.use_parallel # MPI4PY => c.mpi_size = 1 }

SetupInit ==
    /\ \E c \in SetupConfigs :
          config = [c EXCEPT !.start_age = c.end_age + MaxSteps * interval]
    /\ pc = [r \in Ranks |-> IF IsCoordinator(r) THEN "setup" ELSE "loop"]
    /\ iter = [r \in Ranks |-> 0]
    /\ i = [r \in Ranks |-> -1]
    /\ file = [features |-> << >>, torn |-> FALSE, pending |-> << >>]
    /\ rotation_model = << >>
    /\ current_search_radius = 0
    /\ current_models = 0
    /\ startingConditions = << >>
    /\ x = [r \in Ranks |-> << >>]
    /\ xopt = [r \in Ranks |-> << >>]
    /\ scatterQ = [r \in Ranks |-> << >>]
    /\ bcastQ = [r \in Ranks |-> << >>]
    /\ gatherQ = [r \in Ranks |-> << >>]
    /\ min_result_index = -1
    /\ min_results_last = NoResult
    /\ mpi_state = [r \in Ranks |-> IF config.use_parallel = MPI4PY THEN "initialized" ELSE "none"]
    /\ writeLog = << >>
    /\ readLog = [r \in Ranks |-> NoRead]
    /\ opt = NoOpt
    /\ script = NoScript
    /\ obj_f = NoObjF

SetupNext ==
    \/ \E r \in Ranks : SetupBegin(r)
    \/ \E r \in Ranks : SetupEnd(r)

SetupSpec == SetupInit /\ [][SetupNext]_vars

-----------------------------------------------------------------------------
(* The steps of a serial campaign over a rotation file found on disk with  *)
(* no, one or several 005-000 sequences.                                   *)

\* objective_function.py, lines 93-108: the first 005-000 sequence of the
\* list has an enabled sample at time t, which __init__ keeps as
\* self.opt_finite_rotation_sample.
HasOptSample(features, t) ==
    /\ FirstIndex005_000(features) # 0
    /\ \E n \in 1 .. Len(features[FirstIndex005_000(features)].samples) :
          features[FirstIndex005_000(features)].samples[n].time = t

\* A trial whose ObjectiveFunction found its sample.
TrialRuns(r) ==
    /\ HasOptSample(ReadFile, ref_rotation_start_age(r))
    /\ RunTrial(r)

\* A trial whose ObjectiveFunction found no sample: __init__ returns
\* without self.opt_finite_rotation_sample, and the first call of the
\* evaluator raises AttributeError at line 151, out of run_optimisation.
TrialRaises(r) ==
    /\ pc[r] = "run"
    /\ Len(xopt[r]) < Len(x[r])
    /\ ~HasOptSample(ReadFile, ref_rotation_start_age(r))
    /\ readLog' = [readLog EXCEPT ![r] = ReadRecord(r, "trial", ReadFile)]
    /\ IF HookAborts(r)
       THEN pc' = [q \in Ranks |->
                     IF q = r THEN "raised"
                     ELSE IF pc[q] = "done" THEN "done" ELSE "aborted"]
       ELSE pc' = [pc EXCEPT ![r] = "raised"]
    /\ UNCHANGED << script, opt, obj_f, config, iter, i, file, rotation_model, current_search_radius,
                    current_models, startingConditions, x, xopt, scatterQ, bcastQ, gatherQ,
                    min_result_index, min_results_last, mpi_state, writeLog >>

\* The file the setup writes, with n copies of its 005-000 sequence.
FileWith005_000(n) ==
    rotation_features_except_005_000(SetupFeatures)
    \o [k \in 1 .. n |-> SetupFeatures[Len(SetupFeatures)]]

SerialConfigs ==
    [ use_parallel : {IPYPARALLEL, NoParallel},
      mpi_size     : {1},
      end_age      : {540},
      start_age    : {540 + MaxSteps * interval},
      data_model   : {"Global_1000-0_Model_2017"},
      expand       : {FALSE},
      search       : {"Initial"},
      search_radius : {search_radius_default},
      models       : {models_default},
      original_005 : {1} ]

ConsistencyInit ==
    /\ config \in SerialConfigs
    /\ pc = [r \in Ranks |-> "loop"]
    /\ iter = [r \in Ranks |-> 0]
    /\ i = [r \in Ranks |-> -1]
    /\ \E n \in 0 .. MaxOld005 :
          file = [features |-> FileWith005_000(n), torn |-> FALSE, pending |-> << >>]
    /\ rotation_model = << >>
    /\ current_search_radius = 0
    /\ current_models = 0
    /\ startingConditions = << >>
    /\ x = [r \in Ranks |-> << >>]
    /\ xopt = [r \in Ranks |-> << >>]
    /\ scatterQ = [r \in Ranks |-> << >>]
    /\ bcastQ = [r \in Ranks |-> << >>]
    /\ gatherQ = [r \in Ranks |-> << >>]
    /\ min_result_index = -1
    /\ min_results_last = NoResult
    /\ mpi_state = [r \in Ranks |-> "none"]
    /\ writeLog = << [SetupWrite EXCEPT !.features = file.features] >>
    /\ readLog = [r \in Ranks |-> NoRead]
    /\ opt = NoOpt
    /\ script = NoScript
    /\ obj_f = NoObjF

ConsistencyNext ==
    \/ \E r \in Ranks : LoadContext(r)
    \/ \E r \in Ranks : TrialRuns(r)
    \/ \E r \in Ranks : TrialRaises(r)
    \/ \E r \in Ranks : MapDone(r)
    \/ \E r \in Ranks : SelectBest(r)
    \/ \E r \in Ranks : UpdateBegin(r)
    \/ \E r \in Ranks : UpdateEnd(r)
    \/ \E r \in Ranks : LoopEnd(r)

ConsistencySpec == ConsistencyInit /\ [][ConsistencyNext]_vars

-----------------------------------------------------------------------------
(* A serial campaign that is started again after an unhandled exception,   *)
(* with end_age set to the age of the last step that completed             *)
(* (Optimised_config.py, lines 45-50).                                     *)

\* The writes of the rotation file that have completed.
DoneWrites == { n \in 1 .. Len(writeLog) : writeLog[n].done }

\* The age of the last write that completed (end_age for the setup's).
LastCommittedAge ==
    IF DoneWrites = {} THEN config.end_age
    ELSE writeLog[CHOOSE n \in DoneWrites : \A m \in DoneWrites : m <= n].age

\* The writes of the one-time setup.
SetupWrites == { n \in 1 .. Len(writeLog) : writeLog[n].kind = "setup" }

RestartInit ==
    /\ config \in SerialConfigs
    /\ pc = [r \in Ranks |-> "setup"]
    /\ iter = [r \in Ranks |-> 0]
    /\ i = [r \in Ranks |-> -1]
    /\ file = [features |-> << >>, torn |-> FALSE, pending |-> << >>]
    /\ rotation_model = << >>
    /\ current_search_radius = 0
    /\ current_models = 0
    /\ startingConditions = << >>
    /\ x = [r \in Ranks |-> << >>]
    /\ xopt = [r \in Ranks |-> << >>]
    /\ scatterQ = [r \in Ranks |-> << >>]
    /\ bcastQ = [r \in Ranks |-> << >>]
    /\ gatherQ = [r \in Ranks |-> << >>]
    /\ min_result_index = -1
    /\ min_results_last = NoResult
    /\ mpi_state = [r \in Ranks |-> "none"]
    /\ writeLog = << >>
    /\ readLog = [r \in Ranks |-> NoRead]
    /\ opt = NoOpt
    /\ script = NoScript
    /\ obj_f = NoObjF

\* The script is run again after the process ended with an exception, with
\* end_age edited to the age of the last step that completed.  The rotation
\* file is as the ended run left it; the script starts from its first line.
Restart(r) ==
    /\ pc[r] = "raised"
    /\ Cardinality(SetupWrites) <= 1
    /\ config' = [config EXCEPT !.end_age = LastCommittedAge]
    /\ pc' = [pc EXCEPT ![r] = "setup"]
    /\ iter' = [iter EXCEPT ![r] = 0]
    /\ i' = [i EXCEPT ![r] = -1]
    /\ rotation_model' = << >>
    /\ current_search_radius' = 0
    /\ current_models' = 0
    /\ startingConditions' = << >>
    /\ x' = [x EXCEPT ![r] = << >>]
    /\ xopt' = [xopt EXCEPT ![r] = << >>]
    /\ min_result_index' = -1
    /\ min_results_last' = NoResult
    /\ readLog' = [readLog EXCEPT ![r] = NoRead]
    /\ UNCHANGED << script, opt, obj_f, file, scatterQ, bcastQ, gatherQ, mpi_state, writeLog >>

RestartNext ==
    \/ \E r \in Ranks : SetupBegin(r)
    \/ \E r \in Ranks : SetupEnd(r)
    \/ \E r \in Ranks : LoadContext(r)
    \/ \E r \in Ranks : RunTrial(r)
    \/ \E r \in Ranks : MapDone(r)
    \/ \E r \in Ranks : SelectBest(r)
    \/ \E r \in Ranks : UpdateBegin(r)
    \/ \E r \in Ranks : UpdateEnd(r)
    \/ \E r \in Ranks : LoopEnd(r)
    \/ \E r \in Ranks : Raise(r)
    \/ \E r \in Ranks : Restart(r)

RestartSpec == RestartInit /\ [][RestartNext]_vars

-----------------------------------------------------------------------------
(* One trial on its own: run_optimisation (Optimised_APM.py, lines         *)
(* 368-419) and the evaluator it hands to NLopt (objective_function.py).   *)
(* Costs are carried in units of 1/Scale, in which every division the      *)
(* evaluator makes on the modelled inputs is exact.                        *)

MaxIter == 2        \* largest max_iter of a trial
EvalCap == 3        \* evaluator calls followed when no budget is set

Scale == 80

\* alpha = 10, gamma = 1000.0 / 4.0
alpha == 10
gamma == 1000 \div 4
hs_divisor == 8

RECURSIVE SumOf(_)
\* np.sum
SumOf(vs) == IF vs = << >> THEN 0 ELSE Head(vs) + SumOf(Tail(vs))

Abs(v) == IF v < 0 THEN -v ELSE v

\* The non-negative integer whose square is n (the largest not above it).
Isqrt(n) == CHOOSE q \in 0 .. n : q * q <= n /\ (q + 1) * (q + 1) > n

\* A sub-cost variable of __call__: unbound until its branch assigns it.
Unbound == [bound |-> FALSE, value |-> 0]
Bound(v) == [bound |-> TRUE, value |-> v]

\* Lines 168-178: fz_eval = tmp_fz_eval / self.fracture_zone_weight
fz_eval(enabled, tmp_fz_eval, weight) ==
    IF enabled THEN Bound((tmp_fz_eval * Scale) \div weight) ELSE Unbound

\* Lines 184-194: nr_eval = tmp_nr_eval / self.net_rotation_weight
nr_eval(enabled, tmp_nr_eval, weight) ==
    IF enabled THEN Bound((tmp_nr_eval * Scale) \div weight) ELSE Unbound

\* Line 202 and line 311: the trench-migration branch raises on the
\* deprecated 'convergence' path, and on the 'pygplates' path when
\* trench_numTotal is 0 (np.float(0) / np.float(0)).
tm_raises(enabled, method, tm_vel_orth) ==
    /\ enabled
    /\ \/ method = "convergence"
       \/ method = "pygplates" /\ Len(tm_vel_orth) = 0

\* np.std(tm_vel_orth), in units of 1/Scale
NpStd(vs) ==
    LET n == Len(vs)
        sumsq == SumOf([k \in 1 .. n |-> vs[k] * vs[k]])
    IN  (Isqrt(n * sumsq - SumOf(vs) * SumOf(vs)) * Scale) \div n

\* Lines 281-343: tm_eval = (tm_eval_2 + tm_eval_5) * 3
tm_eval(enabled, method, tm_vel_orth, weight) ==
    IF enabled /\ method = "pygplates"
    THEN LET n == Len(tm_vel_orth)
             tm_eval_2 == ((SumOf([k \in 1 .. n |-> Abs(tm_vel_orth[k])]) * Scale) \div n)
                             \div weight
             tm_eval_5 == NpStd(tm_vel_orth) \div weight
         IN  Bound((tm_eval_2 + tm_eval_5) * 3)
    ELSE Unbound

\* Lines 354-388: hs_dist_eval = (tmp_distance_median + tmp_distance_sd) / weight
hs_dist_eval(enabled, tmp_distance, weight) ==
    IF enabled THEN Bound((tmp_distance * Scale) \div weight) ELSE Unbound

\* "try: if v: ... except: pass": what a sub-cost adds, nothing when the
\* name is unbound (NameError) or the value is falsy.
Term(v) == IF v.bound /\ v.value # 0 THEN v.value ELSE 0

\* The hotspot term added in full instead of divided by 8.
opt_eval_hs_undivided(fz, nr, tm, hs, data_array) ==
    Term(fz) * alpha + Term(nr) * gamma + Term(tm)
      + (IF data_array[4] THEN Term(hs) ELSE 0)

\* A sub-cost subtracted from the total instead of added to it.
opt_eval_nr_subtracted(fz, nr, tm, hs, data_array) ==
    Term(fz) * alpha - Term(nr) * gamma + Term(tm)
      + (IF data_array[4] THEN Term(hs) \div hs_divisor ELSE 0)

\* Lines 400-455: opt_eval
opt_eval(fz, nr, tm, hs, data_array) ==
    Term(fz) * alpha + Term(nr) * gamma + Term(tm)
      + (IF data_array[4] THEN Term(hs) \div hs_divisor ELSE 0)

\* The candidate composed on the other side.
EvalRotation005InverseFirst(candidate, plate_rotation_rel_005) ==
    Mul(Inverse(plate_rotation_rel_005), candidate)

\* Lines 134-146: new_rotation_005_rel_000 of the evaluator
EvalRotation005(candidate, plate_rotation_rel_005) ==
    Mul(candidate, Inverse(plate_rotation_rel_005))

\* Both stopping rules set at once.
StopRuleBoth(model_stop_condition, max_iter) ==
    [maxeval |-> max_iter, ftol_rel |-> TRUE, xtol_rel |-> TRUE]

\* Lines 403-410: the stopping criteria given to NLopt (maxeval 0: none).
StopRule(model_stop_condition, max_iter) ==
    IF model_stop_condition # "threshold"
    THEN [maxeval |-> max_iter, ftol_rel |-> FALSE, xtol_rel |-> FALSE]
    ELSE [maxeval |-> 0, ftol_rel |-> TRUE, xtol_rel |-> TRUE]

\* The trench velocities (orthogonal, mm/yr) a call can resolve: none, one
\* or two trenches, retreating or advancing.
TrenchVels == { << >> } \cup { <<v>> : v \in {-2, 2} }
                 \cup { <<v, w>> : v \in {-2, 2}, w \in {-2, 2} }

\* The inverse weights of the four terms (Optimised_config.py, 160-198).
Weights == { [fz |-> 1, nr |-> 1, tm |-> 1, hs |-> 1],
             [fz |-> 1, nr |-> 5, tm |-> 2, hs |-> 1] }

\* The contexts a trial is run in.
TrialContexts ==
    [ data_array           : [1 .. 4 -> BOOLEAN],
      weights              : Weights,
      tm_method            : {"pygplates", "convergence"},
      model_stop_condition : {"threshold", "max_iter"},
      max_iter             : 1 .. MaxIter ]

TrialConfigs ==
    [ use_parallel : {NoParallel},
      mpi_size     : {1},
      end_age      : {540},
      start_age    : {540 + MaxSteps * interval},
      data_model   : {"Global_1000-0_Model_2017"},
      expand       : {FALSE},
      search       : {"Initial"},
      search_radius : {search_radius_default},
      models       : {models_default},
      original_005 : {1} ]

\* Lines 390-410 have run for the first starting vector of the first step:
\* the ObjectiveFunction has read the rotation file the setup wrote, and the
\* optimiser has its stopping rule.
TrialInit ==
    /\ config \in TrialConfigs
    /\ script = NoScript
    /\ pc = [r \in Ranks |-> "run"]
    /\ iter = [r \in Ranks |-> 1]
    /\ i = [r \in Ranks |-> 0]
    /\ file = [features |-> SetupFeatures, torn |-> FALSE, pending |-> << >>]
    /\ rotation_model = SetupFeatures
    /\ current_search_radius = CurrentSearchRadius(0)
    /\ current_models = CurrentModels(0)
    /\ startingConditions = << 1 >>
    /\ x = [r \in Ranks |-> << 1 >>]
    /\ xopt = [r \in Ranks |-> << >>]
    /\ scatterQ = [r \in Ranks |-> << >>]
    /\ bcastQ = [r \in Ranks |-> << >>]
    /\ gatherQ = [r \in Ranks |-> << >>]
    /\ min_result_index = -1
    /\ min_results_last = NoResult
    /\ mpi_state = [r \in Ranks |-> "none"]
    /\ writeLog = << SetupWrite >>
    /\ readLog = [r \in Ranks |->
                    [rank |-> r, kind |-> "trial", step |-> 0, begun |-> 1,
                     writes |-> 1, torn |-> FALSE, features |-> SetupFeatures]]
    /\ \E c \in TrialContexts :
          /\ obj_f = [context |-> c,
                      rotation_features_updated |-> SetupFeatures,
                      plate_rotation_rel_005 |->
                          get_rotation(SetupFeatures, age_range(0), RefPlate(age_range(0))),
                      calls |-> 0,
                      outcome |-> "none",
                      x |-> "none",
                      inputs |-> [fz |-> 0, nr |-> 0, tm |-> << >>, hs |-> 0],
                      opt_eval |-> 0]
          /\ opt = [state |-> "optimize", stop |-> "none", numevals |-> 0]
                     @@ StopRule(c.model_stop_condition, c.max_iter)

\* NLopt may call the evaluator again: the budget, if one is set, is not
\* used up.
MayEvaluate ==
    /\ opt.state = "optimize"
    /\ opt.maxeval = 0 \/ opt.numevals < opt.maxeval
    /\ opt.numevals < EvalCap

\* The inputs one call computes from the reconstructed data; a term that is
\* not enabled computes nothing.
CallInputs(c) ==
    [ fz : IF c.data_array[1] THEN {0, 10} ELSE {0},
      nr : IF c.data_array[2] THEN {0, 10} ELSE {0},
      tm : IF c.data_array[3] THEN TrenchVels ELSE {<< >>},
      hs : IF c.data_array[4] THEN {0, 10} ELSE {0} ]

\* obj_f(x, grad), lines 113-472, for a call that returns.
EvaluateReturns(r) ==
    /\ MayEvaluate
    /\ \E v \in Vec, d \in CallInputs(obj_f.context) :
          LET c == obj_f.context
          IN  /\ ~tm_raises(c.data_array[3], c.tm_method, d.tm)
              /\ obj_f' = [obj_f EXCEPT
                    !.calls = obj_f.calls + 1,
                    !.outcome = "returned",
                    !.x = v,
                    !.inputs = d,
                    !.rotation_features_updated =
                        UpdatedFeatures(obj_f.rotation_features_updated, age_range(0),
                            EvalRotation005(VecRotation(v), obj_f.plate_rotation_rel_005)),
                    !.opt_eval =
                        opt_eval(fz_eval(c.data_array[1], d.fz, c.weights.fz),
                                 nr_eval(c.data_array[2], d.nr, c.weights.nr),
                                 tm_eval(c.data_array[3], c.tm_method, d.tm, c.weights.tm),
                                 hs_dist_eval(c.data_array[4], d.hs, c.weights.hs),
                                 c.data_array)]
    /\ opt' = [opt EXCEPT !.numevals = opt.numevals + 1]
    /\ UNCHANGED << script, config, pc, iter, i, file, rotation_model, current_search_radius,
                    current_models, startingConditions, x, xopt, scatterQ, bcastQ, gatherQ,
                    min_result_index, min_results_last, mpi_state, writeLog, readLog >>

\* obj_f(x, grad) for a call that raises: the exception leaves
\* opt.optimize and run_optimisation, and the process has an unhandled
\* exception.
EvaluateRaises(r) ==
    /\ MayEvaluate
    /\ pc[r] = "run"
    /\ \E v \in Vec, d \in CallInputs(obj_f.context) :
          LET c == obj_f.context
          IN  /\ tm_raises(c.data_array[3], c.tm_method, d.tm)
              /\ obj_f' = [obj_f EXCEPT
                    !.calls = obj_f.calls + 1,
                    !.outcome = "raised",
                    !.x = v,
                    !.inputs = d,
                    !.rotation_features_updated =
                        UpdatedFeatures(obj_f.rotation_features_updated, age_range(0),
                            EvalRotation005(VecRotation(v), obj_f.plate_rotation_rel_005))]
    /\ opt' = [opt EXCEPT !.numevals = opt.numevals + 1, !.state = "raised"]
    /\ pc' = [pc EXCEPT ![r] = "raised"]
    /\ UNCHANGED << script, config, iter, i, file, rotation_model, current_search_radius,
                    current_models, startingConditions, x, xopt, scatterQ, bcastQ, gatherQ,
                    min_result_index, min_results_last, mpi_state, writeLog, readLog >>

\* opt.optimize returns because the evaluation budget is used up; lines
\* 412-419 append the result.
StopMaxeval(r) ==
    /\ opt.state = "optimize"
    /\ pc[r] = "run"
    /\ opt.maxeval > 0
    /\ opt.numevals >= opt.maxeval
    /\ opt' = [opt EXCEPT !.state = "returned", !.stop = "maxeval"]
    /\ xopt' = [xopt EXCEPT ![r] =
                  Append(xopt[r], TrialResult(x[r][1], obj_f.x, obj_f.opt_eval))]
    /\ UNCHANGED << script, obj_f, config, pc, iter, i, file, rotation_model, current_search_radius,
                    current_models, startingConditions, x, scatterQ, bcastQ, gatherQ,
                    min_result_index, min_results_last, mpi_state, writeLog, readLog >>

\* opt.optimize returns because a relative tolerance that was set is met.
StopTolerance(r) ==
    /\ opt.state = "optimize"
    /\ pc[r] = "run"
    /\ opt.ftol_rel \/ opt.xtol_rel
    /\ opt.numevals >= 1
    /\ obj_f.outcome = "returned"
    /\ opt' = [opt EXCEPT !.state = "returned", !.stop = "tolerance"]
    /\ xopt' = [xopt EXCEPT ![r] =
                  Append(xopt[r], TrialResult(x[r][1], obj_f.x, obj_f.opt_eval))]
    /\ UNCHANGED << script, obj_f, config, pc, iter, i, file, rotation_model, current_search_radius,
                    current_models, startingConditions, x, scatterQ, bcastQ, gatherQ,
                    min_result_index, min_results_last, mpi_state, writeLog, readLog >>

TrialNext ==
    \/ \E r \in Ranks : EvaluateReturns(r)
    \/ \E r \in Ranks : EvaluateRaises(r)
    \/ \E r \in Ranks : StopMaxeval(r)
    \/ \E r \in Ranks : StopTolerance(r)

TrialSpec == TrialInit /\ [][TrialNext]_vars

-----------------------------------------------------------------------------
(* Properties.                                                             *)

\* Rank r is inside the body of a time step.
InStep(r) ==
    /\ iter[r] >= 1
    /\ pc[r] \in {"scatter", "bcast", "run", "select", "update", "update_write"}

\* The update of the step with index k has been written and is on disk.
Committed(k) ==
    \E n \in 1 .. Len(writeLog) :
        writeLog[n].kind = "update" /\ writeLog[n].step = k /\ writeLog[n].done

\* The rotation of the sample at time t of the first 005-000 sequence.
Sample005(features, t) ==
    LET k  == FirstIndex005_000(features)
        ns == IF k = 0 THEN {}
              ELSE { n \in 1 .. Len(features[k].samples) : features[k].samples[n].time = t }
    IN  IF ns = {} THEN << >> ELSE features[k].samples[CHOOSE n \in ns : TRUE].rot

\* C1 (as amended): the ages of the loop ascend, and while any process is
\* in the step for an age, the update of every younger age of the campaign
\* has been written completely: steps run youngest first.
C1_YoungerBeforeOlder ==
    /\ \A j, k \in AgeIndices : j < k => age_range(j) < age_range(k)
    /\ \A r \in Ranks :
          InStep(r) =>
             \A k \in AgeIndices :
                age_range(k) < ref_rotation_start_age(r) => Committed(k)

\* C1 (as claimed): while any process is in the step for an age, the update
\* of every older age of the campaign has been written completely.
C1_OlderBeforeYounger ==
    \A r \in Ranks :
        InStep(r) =>
           \A k \in AgeIndices :
              age_range(k) > ref_rotation_start_age(r) => Committed(k)

C1_Witness ==
    \E r \in Ranks :
        /\ r # 0
        /\ InStep(r)
        /\ iter[r] = 2
        /\ pc[r] = "run"
        /\ Committed(0)

UpdateWrites(k) ==
    { n \in 1 .. Len(writeLog) : writeLog[n].kind = "update" /\ writeLog[n].step = k }

\* The coordinating process has finished the step with index k.
StepFinished(k) ==
    \/ iter[0] > k + 1
    \/ iter[0] = k + 1 /\ pc[0] \in {"loop", "done"}

\* C3: every write of the rotation file is made by rank 0; a step's write
\* is made after the step's minimum has been selected; no step has more
\* than one write, and a step the coordinating process has finished has
\* exactly one.
C3_WrittenOncePerStep ==
    /\ \A n \in 1 .. Len(writeLog) :
          /\ writeLog[n].by = 0
          /\ writeLog[n].kind = "update" => writeLog[n].selected >= 0
    /\ \A k \in AgeIndices :
          /\ Cardinality(UpdateWrites(k)) <= 1
          /\ StepFinished(k) => Cardinality(UpdateWrites(k)) = 1

C3_Witness ==
    /\ config.use_parallel = MPI4PY
    /\ config.mpi_size = 2
    /\ \A r \in Ranks : pc[r] = "done"
    /\ \A k \in AgeIndices : Cardinality(UpdateWrites(k)) = 1

\* C4: under mpi4py, when a trial of the step with index k reads the
\* rotation file, the writes of the setup and of the steps before k have
\* completed, no write is in progress and the write of step k has not begun.
C4_ReadsBetweenWrites ==
    config.use_parallel = MPI4PY =>
       \A r \in Ranks :
          readLog[r].kind = "trial" =>
             /\ ~readLog[r].torn
             /\ readLog[r].writes = readLog[r].step + 1
             /\ readLog[r].begun = readLog[r].step + 1

C4_Witness ==
    /\ config.use_parallel = MPI4PY
    /\ \E r \in Ranks :
          /\ r # 0
          /\ readLog[r].kind = "trial"
          /\ readLog[r].step = 1
          /\ pc[0] = "run"

\* C5: once the trials of a step have been dispatched and collected, the
\* coordinating process holds as many results as there are starting
\* vectors, and exactly one result for each starting vector.
C5_OneResultPerStartingVector ==
    \A r \in Ranks :
        (IsCoordinator(r) /\ pc[r] \in {"select", "update", "update_write"}) =>
           /\ Len(xopt[r]) = Len(startingConditions)
           /\ \A k \in 1 .. Len(startingConditions) :
                 Cardinality({ n \in 1 .. Len(xopt[r]) :
                                  xopt[r][n].x0 = startingConditions[k] }) = 1

C5_Witness ==
    /\ config.use_parallel = MPI4PY
    /\ config.mpi_size > Len(startingConditions)
    /\ pc[0] = "select"
    /\ Len(xopt[0]) = Len(startingConditions)

\* The sub-list the scatter of rank 0 hands to rank r: the rank's own x, or
\* the list still in flight to it.
ScatteredTo(r) ==
    IF r = 0 \/ scatterQ[r] = << >> THEN x[r] ELSE Head(scatterQ[r])

\* C6: after the scatter every one of the mpi_size ranks has exactly one
\* sub-list, every starting vector is in exactly one place of exactly one
\* sub-list, and rank r has floor(N / P) vectors and one more exactly when
\* r < N mod P.
C6_NearEvenPartition ==
    pc[0] = "bcast" =>
       LET N == Len(startingConditions)
           P == config.mpi_size
       IN  /\ \A r \in Ranks \ {0} :
                 \/ Len(scatterQ[r]) = 1 /\ pc[r] = "loop"
                 \/ scatterQ[r] = << >> /\ pc[r] = "bcast"
           /\ \A k \in 1 .. N :
                 Cardinality({ rn \in Ranks \X (1 .. N) :
                                  /\ rn[2] <= Len(ScatteredTo(rn[1]))
                                  /\ ScatteredTo(rn[1])[rn[2]] = startingConditions[k] }) = 1
           /\ \A r \in Ranks :
                 Len(ScatteredTo(r)) = (N \div P) + (IF r < N % P THEN 1 ELSE 0)

C6_Witness ==
    /\ pc[0] = "bcast"
    /\ Len(startingConditions) > config.mpi_size
    /\ Len(startingConditions) % config.mpi_size >= 2
    /\ Len(ScatteredTo(1)) = Len(ScatteredTo(config.mpi_size - 1)) + 1

\* C7: the selected result costs no more than any result of the step, and
\* every result before it in the list costs strictly more.
C7_FirstMinimum ==
    \A r \in Ranks :
        pc[r] \in {"update", "update_write"} =>
           LET w == min_result_index + 1
           IN  /\ w \in 1 .. Len(xopt[r])
               /\ \A n \in 1 .. Len(xopt[r]) : xopt[r][w].minf <= xopt[r][n].minf
               /\ \A n \in 1 .. (w - 1) : xopt[r][n].minf > xopt[r][w].minf

C7_Witness ==
    /\ pc[0] = "update"
    /\ min_result_index = 1
    /\ Len(xopt[0]) = 3
    /\ xopt[0][3].minf = xopt[0][2].minf
    /\ xopt[0][1].minf > xopt[0][2].minf

\* C8: under mpi4py, once a process has raised an unhandled exception no
\* process of the job is left running or waiting: each has been aborted or
\* had already finished.
C8_RaiseAbortsAll ==
    config.use_parallel = MPI4PY =>
       ((\E r \in Ranks : pc[r] = "raised") => \A q \in Ranks : ~Running(q))

C8_Witness ==
    /\ config.use_parallel = MPI4PY
    /\ config.mpi_size = 2
    /\ pc[1] = "raised"
    /\ pc[0] = "aborted"
    /\ iter[0] >= 1
    /\ x[0] # << >>
    /\ Len(xopt[0]) = Len(x[0])
    /\ gatherQ[1] = << >>

\* The step with index k has a reference plate other than that of the step
\* processed before it.
RefPlateSwitched(k) ==
    k > 0 /\ RefPlate(age_range(k)) # RefPlate(age_range(k - 1))

\* The search radius is 90 and the model count is the integer nearest to
\* models * (1 - cos(90/2)) / (1 - cos(search_radius/2)).
Widened ==
    /\ current_search_radius = 90
    /\ LET a == OneMinusCosHalf(90)
           b == OneMinusCosHalf(config.search_radius)
           d == current_models * b - config.models * a
       IN  2 * (IF d < 0 THEN -d ELSE d) <= b

WidenedFrom60And100 ==
    /\ iter[0] >= 1
    /\ RefPlateSwitched(iter[0] - 1)
    /\ config.expand
    /\ config.search = "Initial"
    /\ config.search_radius = 60
    /\ config.models = 100
    /\ current_search_radius = 90

\* C10 (as amended): with search_radius = 60 and models = 100 a widening to
\* 90 sets current_models to 219.
C10_ModelsBecome219 == WidenedFrom60And100 => current_models = 219

\* C10 (as claimed): with search_radius = 60 and models = 100 a widening to
\* 90 sets current_models to 220.
C10_ModelsBecome220 == WidenedFrom60And100 => current_models = 220

C10_Witness == WidenedFrom60And100 /\ current_models = 219

\* C11: a trial has exactly one stopping rule.  With model_stop_condition
\* "max_iter" the evaluation budget is max_iter and the evaluator is never
\* called more than max_iter times; with "threshold" no budget is set and
\* the optimiser returns only because a relative tolerance is met.
C11_OneStoppingRule ==
    opt.state # "none" =>
       LET c == obj_f.context
       IN  /\ (opt.maxeval > 0) # (opt.ftol_rel \/ opt.xtol_rel)
           /\ opt.ftol_rel = opt.xtol_rel
           /\ c.model_stop_condition = "max_iter" =>
                 /\ opt.maxeval = c.max_iter
                 /\ opt.numevals <= c.max_iter
                 /\ obj_f.calls <= c.max_iter
                 /\ opt.state = "returned" => opt.stop = "maxeval"
           /\ c.model_stop_condition = "threshold" =>
                 /\ opt.maxeval = 0
                 /\ opt.state = "returned" => opt.stop = "tolerance"

C11_Witness ==
    /\ opt.state = "returned"
    /\ obj_f.context.model_stop_condition = "max_iter"
    /\ obj_f.context.max_iter > 1
    /\ obj_f.calls = obj_f.context.max_iter
    /\ opt.stop = "maxeval"

\* What the trench-migration term of a call is worth, for velocities of one
\* magnitude: three times the sum of their mean magnitude and their
\* standard deviation (the magnitude itself when both signs occur among no
\* more than two of them, else nothing), each over the weight.
TrenchCost(vs, weight) ==
    LET a  == Abs(vs[1])
        sd == IF \E j, k \in 1 .. Len(vs) : vs[j] # vs[k] THEN a ELSE 0
    IN  3 * ((a * Scale) \div weight + (sd * Scale) \div weight)

\* The sum, over the enabled terms other than trench migration, of the
\* weight-normalised sub-costs times their scaling constants.
OtherTermsCost ==
    LET c == obj_f.context
        d == obj_f.inputs
    IN  (IF c.data_array[1] THEN 10 * ((d.fz * Scale) \div c.weights.fz) ELSE 0)
        + (IF c.data_array[2] THEN 250 * ((d.nr * Scale) \div c.weights.nr) ELSE 0)
        + (IF c.data_array[4] THEN ((d.hs * Scale) \div c.weights.hs) \div 8 ELSE 0)

\* C12: a call that returns gives the sum over the enabled terms only of
\* the weight-normalised sub-costs times their constants (fracture zone
\* x10, net rotation x250, trench migration x1, hotspot trail /8), 0 when
\* no term is enabled; a term that is not enabled never makes a call raise.
C12_SumOfEnabledTerms ==
    LET c == obj_f.context
        d == obj_f.inputs
    IN  /\ obj_f.outcome = "returned" =>
              obj_f.opt_eval =
                  OtherTermsCost
                  + (IF c.data_array[3] THEN TrenchCost(d.tm, c.weights.tm) ELSE 0)
        /\ (obj_f.outcome = "returned" /\ \A k \in 1 .. 4 : ~c.data_array[k]) =>
              obj_f.opt_eval = 0
        /\ obj_f.outcome = "raised" => c.data_array[3]

C12_Witness ==
    /\ obj_f.outcome = "returned"
    /\ \A k \in 1 .. 4 : obj_f.context.data_array[k]
    /\ obj_f.context.weights.nr = 5
    /\ obj_f.inputs.fz > 0
    /\ obj_f.inputs.nr > 0
    /\ obj_f.inputs.hs > 0
    /\ obj_f.inputs.tm = <<2, -2>>
    /\ obj_f.opt_eval > 0

\* C13 (as claimed): with trench migration enabled and no trench resolved,
\* a call returns, and returns the sum of the other enabled terms.
C13_ZeroTrenchesOmitted ==
    (/\ obj_f.calls >= 1
     /\ obj_f.context.data_array[3]
     /\ obj_f.context.tm_method = "pygplates"
     /\ obj_f.inputs.tm = << >>) =>
        /\ obj_f.outcome = "returned"
        /\ obj_f.opt_eval = OtherTermsCost

\* C14: the cost a call returns is not negative.
C14_NonNegativeCost ==
    /\ obj_f.outcome = "returned" => obj_f.opt_eval >= 0
    /\ \A r \in Ranks : \A n \in 1 .. Len(xopt[r]) : xopt[r][n].minf >= 0

C14_Witness ==
    /\ obj_f.outcome = "returned"
    /\ obj_f.context.data_array[2]
    /\ obj_f.context.data_array[3]
    /\ obj_f.inputs.tm = <<-2, -2>>
    /\ obj_f.inputs.nr > 0
    /\ obj_f.opt_eval > 0
    /\ opt.state = "returned"

\* C15: for every candidate rotation C and every rotation R of the
\* reference plate relative to 005, B = C * inverse(R) gives B * R = C; the
\* 005-000 sample an evaluator call stores, composed with R, is the
\* candidate of the call, and it is the rotation the rotation-file update
\* computes for the same candidate (one that the update's rounding to two
\* decimals leaves as it is).
C15_PlateCircuitRoundTrip ==
    /\ \A C \in Rot, R \in Rot : Mul(EvalRotation005(C, R), R) = C
    /\ obj_f.calls >= 1 =>
          LET B == Sample005(obj_f.rotation_features_updated, age_range(0))
          IN  /\ Mul(B, obj_f.plate_rotation_rel_005) = VecRotation(obj_f.x)
              /\ round2(VecAngle(obj_f.x)) = VecAngle(obj_f.x) =>
                    B = new_rotation_005_rel_000(rotation_model, age_range(0),
                                                 RefPlate(age_range(0)),
                                                 [xopt |-> obj_f.x])

C15_Witness ==
    /\ obj_f.calls >= 1
    /\ round2(VecAngle(obj_f.x)) = VecAngle(obj_f.x)
    /\ obj_f.plate_rotation_rel_005 # Identity
    /\ Mul(VecRotation(obj_f.x), Inverse(obj_f.plate_rotation_rel_005))
          # Mul(Inverse(obj_f.plate_rotation_rel_005), VecRotation(obj_f.x))
    /\ Sample005(obj_f.rotation_features_updated, age_range(0)) # VecRotation(obj_f.x)

\* The places of the 005-000 sequences in a list of features.
Places005_000(features) == { k \in 1 .. Len(features) : Is005_000(features[k]) }

\* The setup has written the rotation file and no step has begun.
SetupDone ==
    /\ pc[0] = "loop"
    /\ iter[0] = 0
    /\ Len(writeLog) = 1

\* C16: after the setup and before the first step the rotation file holds
\* exactly one 005-000 sequence; its samples are the identity at 0 Ma and,
\* at each age of the campaign, a rotation computed from the reference
\* plate's rotation relative to 005, none of them a sample of a 005-000
\* sequence of the original file at an age of the campaign; and the
\* features of the original file other than 005-000 are all there, in
\* their order and unchanged.
C16_SetupSeedsOne005_000 ==
    SetupDone =>
       LET new  == file.features
           k    == CHOOSE n \in Places005_000(new) : TRUE
           orig == OriginalFeatures
           kept == { n \in 1 .. Len(orig) : ~Is005_000(orig[n]) }
       IN  /\ ~file.torn
           /\ Cardinality(Places005_000(new)) = 1
           /\ new[k].samples[1] = Sample(0, Identity)
           /\ Len(new[k].samples) = age_range_len + 1
           /\ \A n \in 1 .. age_range_len :
                 LET t == age_range(n - 1)
                 IN  /\ new[k].samples[n + 1].time = t
                     /\ Mul(new[k].samples[n + 1].rot, OriginalRel005(RefPlate(t), t))
                           = Identity
           /\ \A n \in Places005_000(orig) :
                 \A j \in 1 .. Len(orig[n].samples) :
                    orig[n].samples[j].time > 0 =>
                       \A m \in 1 .. Len(new[k].samples) :
                          new[k].samples[m] # orig[n].samples[j]
           /\ Len(new) = Cardinality(kept) + 1
           /\ \A n \in kept :
                 new[Cardinality({ m \in kept : m <= n })] = orig[n]

C16_Witness ==
    /\ SetupDone
    /\ ~file.torn
    /\ config.original_005 = 2
    /\ Cardinality(Places005_000(OriginalFeatures)) = 2
    /\ Cardinality(Places005_000(file.features)) = 1
    /\ config.use_parallel = MPI4PY
    /\ config.mpi_size = 2

\* The rotation of the reference plate of age t relative to 000 at time t,
\* as a list of features gives it: R(005 rel 000) * R(ref rel 005).
RefPlateRel000(features, t) ==
    Mul(Sample005(features, t), get_rotation(features, t, RefPlate(t)))

\* The step with index k has begun to write, or has written, its update.
UpdateBegun(k) == UpdateWrites(k) # {}

\* C17: in the rotation file as the data loader and the trials of a step
\* read it, and as it stands on disk until the step's update is written,
\* the rotation of the step's reference plate relative to 000 at the step's
\* age is the identity; so it is at every age of the campaign whose update
\* has not begun, whichever reference plate the age has.
C17_ReferencePlateZeroBeforeStep ==
    /\ \A r \in Ranks :
          readLog[r].kind \in {"loader", "trial"} =>
             RefPlateRel000(readLog[r].features, age_range(readLog[r].step)) = Identity
    /\ (Len(writeLog) >= 1 /\ ~file.torn) =>
          \A k \in AgeIndices :
             ~UpdateBegun(k) => RefPlateRel000(file.features, age_range(k)) = Identity

C17_Witness ==
    /\ pc[0] = "run"
    /\ iter[0] = 2
    /\ readLog[0].kind = "trial"
    /\ readLog[0].step = 1
    /\ RefPlate(age_range(1)) # RefPlate(age_range(0))
    /\ RefPlateRel000(readLog[0].features, age_range(0)) # Identity
    /\ RefPlateRel000(readLog[0].features, age_range(1)) = Identity

\* The features after differ from the features before in nothing but the
\* rotation of the samples at time t of 005-000 sequences.
OnlySampleChanged(before, after, t) ==
    /\ Len(after) = Len(before)
    /\ \A k \in 1 .. Len(before) :
          IF Is005_000(before[k])
          THEN /\ Is005_000(after[k])
               /\ Len(after[k].samples) = Len(before[k].samples)
               /\ \A n \in 1 .. Len(before[k].samples) :
                     /\ after[k].samples[n].time = before[k].samples[n].time
                     /\ before[k].samples[n].time # t =>
                           after[k].samples[n] = before[k].samples[n]
          ELSE after[k] = before[k]

\* C18: what the update of the step for age t writes differs from the
\* rotation file it read, which is what the write before it left, only in
\* the sample at time t of the 005-000 sequence; the samples of other
\* times, those of earlier steps among them, and all other features are
\* the same before and after.
C18_UpdateChangesOneSample ==
    /\ \A n \in 2 .. Len(writeLog) :
          writeLog[n].kind = "update" =>
             OnlySampleChanged(writeLog[n - 1].features, writeLog[n].features,
                               writeLog[n].age)
    /\ \A r \in Ranks :
          pc[r] = "update_write" =>
             /\ readLog[r].kind = "update"
             /\ readLog[r].features = writeLog[Len(writeLog) - 1].features
             /\ file.pending = writeLog[Len(writeLog)].features
             /\ OnlySampleChanged(readLog[r].features, file.pending,
                                  ref_rotation_start_age(r))
    /\ (Len(writeLog) >= 1 /\ ~file.torn) =>
          file.features = writeLog[Len(writeLog)].features

C18_Witness ==
    /\ pc[0] = "update_write"
    /\ iter[0] = 2
    /\ Sample005(file.pending, age_range(1)) # Sample005(readLog[0].features, age_range(1))
    /\ Sample005(file.pending, age_range(0)) # Sample005(SetupFeatures, age_range(0))
    /\ Sample005(file.pending, age_range(0)) = Sample005(readLog[0].features, age_range(0))

HoldsResult(n) ==
    Sample005(file.features, writeLog[n].age) = Sample005(writeLog[n].features, writeLog[n].age)

\* The completed update writes.
CommittedUpdates == { n \in DoneWrites : writeLog[n].kind = "update" }

\* No step is skipped: an update is for the age one interval above that of
\* the last write completed before it.
NoStepSkipped ==
    \A n \in 1 .. Len(writeLog) :
       writeLog[n].kind = "update" =>
          \E m \in DoneWrites :
             /\ m < n
             /\ \A k \in DoneWrites : k < n => k <= m
             /\ writeLog[n].age = writeLog[m].age + interval

\* When a process has ended with an exception the rotation file holds the
\* result of every step its run completed, that is, every update after the
\* run's setup.
ErrorKeepsCommitted ==
    \A r \in Ranks :
       (pc[r] = "raised" /\ ~file.torn) =>
          \A n \in CommittedUpdates :
             (\A s \in SetupWrites : s < n) => HoldsResult(n)

\* C20 (as claimed): no step is skipped; after a fatal error the rotation
\* file holds the result of every step completed before it; and when the
\* campaign has been started again from the last successful step, the file
\* still holds those results.
C20_RestartKeepsCommitted ==
    /\ NoStepSkipped
    /\ ErrorKeepsCommitted
    /\ \A s \in SetupWrites :
          (writeLog[s].done /\ ~file.torn) =>
             \A n \in CommittedUpdates : n < s => HoldsResult(n)

-----------------------------------------------------------------------------
(* The trials of one step, each followed call by call: run_optimisation    *)
(* (Optimised_APM.py, lines 368-419) constructs an ObjectiveFunction per   *)
(* trial and NLopt calls it.  Here obj_f maps the position of a starting   *)
(* vector in the step's list to the evaluator of its trial.                *)

MaxTrials == 2      \* largest number of starting vectors of the step

Trials == 1 .. Len(startingConditions)

\* The rank whose list holds starting vector k (rank 0 hands the whole list
\* to dview.map or to the serial loop).
Owner(k) == CHOOSE r \in Ranks : \E n \in 1 .. Len(x[r]) : x[r][n] = startingConditions[k]

\* The trials a rank runs before trial k: those earlier in its list.
EarlierOf(k) == { j \in Trials : j < k /\ Owner(j) = Owner(k) }

NoEvaluator == [state |-> "none"]

\* self.rotation_model_original.get_rotation(self.ref_rotation_start_age,
\* self.ref_rotation_plate_id, fixed_plate_id=5) with the reference plate's
\* rotation taken from the features being updated, relative to 000.
plate_rotation_rel_000_updated(o) ==
    Mul(Sample005(o.rotation_features_updated, age_range(0)),
        get_rotation(o.rotation_features_updated, age_range(0), RefPlate(age_range(0))))

\* Lines 141-144: plate_rotation_701_rel_005
plate_rotation_rel_005(o) ==
    get_rotation(o.rotation_model_original, age_range(0), RefPlate(age_range(0)))

\* The cost a call computes from rotation_model_updated, the rotation model
\* of the evaluator's features (lines 148-455): it is decided by where that
\* model puts the reference plate at the step's age.
CostOfModel(features) ==
    LET rot == Mul(Sample005(features, age_range(0)),
                   get_rotation(features, age_range(0), RefPlate(age_range(0))))
    IN  3 * rot[1] + rot[2]

EvaluatorConfigs ==
    { c \in [ use_parallel : {MPI4PY, IPYPARALLEL, NoParallel},
              mpi_size     : 1 .. MaxProcs,
              end_age      : {540},
              start_age    : {540 + MaxSteps * interval},
              data_model   : {"Global_1000-0_Model_2017"},
              expand       : {FALSE},
              search       : {"Initial"},
              search_radius : {search_radius_default},
              models       : {models_default},
              original_005 : {1} ] :
        c.use_parallel # MPI4PY => c.mpi_size = 1 }

\* Every process is at line 445 of the first step with its list x.
EvaluatorInit ==
    /\ config \in EvaluatorConfigs
    /\ pc = [r \in Ranks |-> "run"]
    /\ iter = [r \in Ranks |-> 1]
    /\ i = [r \in Ranks |-> 0]
    /\ file = [features |-> SetupFeatures, torn |-> FALSE, pending |-> << >>]
    /\ rotation_model = SetupFeatures
    /\ current_search_radius = CurrentSearchRadius(0)
    /\ current_models = CurrentModels(0)
    /\ \E n \in 1 .. MaxTrials :
          /\ startingConditions = [k \in 1 .. n |-> k]
          /\ x = IF config.use_parallel = MPI4PY
                 THEN Partition([k \in 1 .. n |-> k], config.mpi_size)
                 ELSE [r \in Ranks |-> [k \in 1 .. n |-> k]]
          /\ obj_f = [k \in 1 .. n |-> NoEvaluator]
    /\ xopt = [r \in Ranks |-> << >>]
    /\ scatterQ = [r \in Ranks |-> << >>]
    /\ bcastQ = [r \in Ranks |-> << >>]
    /\ gatherQ = [r \in Ranks |-> << >>]
    /\ min_result_index = -1
    /\ min_results_last = NoResult
    /\ mpi_state = [r \in Ranks |-> IF config.use_parallel = MPI4PY THEN "initialized" ELSE "none"]
    /\ writeLog = << SetupWrite >>
    /\ readLog = [r \in Ranks |-> NoRead]
    /\ opt = NoOpt
    /\ script = NoScript

\* ObjectiveFunction.__init__ (objective_function.py, lines 76-108) for the
\* trial of starting vector k: the rotation file is read into the features
\* the evaluator will update, and the original rotation model is built from
\* a copy of them.  A process runs the trials of its list one after the
\* other; dview.map hands them to engines that run at the same time.
ObjectiveFunctionInit(k) ==
    /\ obj_f[k].state = "none"
    /\ pc[Owner(k)] = "run"
    /\ config.use_parallel # IPYPARALLEL =>
          \A j \in EarlierOf(k) : obj_f[j].state = "returned"
    /\ obj_f' = [obj_f EXCEPT ![k] =
                   [state |-> "optimize",
                    rotation_features_updated |-> ReadFile,
                    rotation_model_original |-> ReadFile,
                    calls |-> 0, x |-> "none", before |-> "none", opt_eval |-> 0]]
    /\ readLog' = [readLog EXCEPT ![Owner(k)] = ReadRecord(Owner(k), "trial", ReadFile)]
    /\ UNCHANGED << script, opt, config, pc, iter, i, file, rotation_model, current_search_radius,
                    current_models, startingConditions, x, xopt, scatterQ, bcastQ, gatherQ,
                    min_result_index, min_results_last, mpi_state, writeLog >>

\* A call whose set_finite_rotation lands in the features of every
\* evaluator that is alive, as if they held one collection.
ObjectiveFunctionCallShared(k) ==
    /\ obj_f[k].state = "optimize"
    /\ obj_f[k].calls < EvalCap
    /\ \E v \in Vec :
          LET rot == EvalRotation005(VecRotation(v), plate_rotation_rel_005(obj_f[k]))
              own == UpdatedFeatures(obj_f[k].rotation_features_updated, age_range(0), rot)
          IN  obj_f' = [j \in Trials |->
                 IF j = k
                 THEN [obj_f[k] EXCEPT
                         !.calls = obj_f[k].calls + 1,
                         !.before = obj_f[k].x,
                         !.x = v,
                         !.rotation_features_updated = own,
                         !.opt_eval = CostOfModel(own)]
                 ELSE IF obj_f[j].state = "optimize"
                      THEN [obj_f[j] EXCEPT !.rotation_features_updated =
                              UpdatedFeatures(obj_f[j].rotation_features_updated,
                                              age_range(0), rot)]
                      ELSE obj_f[j]]
    /\ UNCHANGED << script, opt, config, pc, iter, i, file, rotation_model, current_search_radius,
                    current_models, startingConditions, x, xopt, scatterQ, bcastQ, gatherQ,
                    min_result_index, min_results_last, mpi_state, writeLog, readLog >>

\* obj_f(x, grad) (objective_function.py, lines 113-472) called by NLopt
\* with a parameter vector of rotation v: the 005-000 sample of the
\* evaluator's own features is set (line 151), and the cost is computed from
\* the rotation model of those features.  Nothing is written to the file.
ObjectiveFunctionCall(k) ==
    /\ obj_f[k].state = "optimize"
    /\ obj_f[k].calls < EvalCap
    /\ \E v \in Vec :
          LET rot == EvalRotation005(VecRotation(v), plate_rotation_rel_005(obj_f[k]))
              own == UpdatedFeatures(obj_f[k].rotation_features_updated, age_range(0), rot)
          IN  obj_f' = [obj_f EXCEPT ![k] =
                 [obj_f[k] EXCEPT
                    !.calls = obj_f[k].calls + 1,
                    !.before = obj_f[k].x,
                    !.x = v,
                    !.rotation_features_updated = own,
                    !.opt_eval = CostOfModel(own)]]
    /\ UNCHANGED << script, opt, config, pc, iter, i, file, rotation_model, current_search_radius,
                    current_models, startingConditions, x, xopt, scatterQ, bcastQ, gatherQ,
                    min_result_index, min_results_last, mpi_state, writeLog, readLog >>

\* Lines 412-419: opt.optimize returns after at least one call and
\* run_optimisation returns (xopt, minf), which joins the results of the
\* process in the order of its list.
RunOptimisationReturns(k) ==
    /\ obj_f[k].state = "optimize"
    /\ obj_f[k].calls >= 1
    /\ obj_f' = [obj_f EXCEPT ![k].state = "returned"]
    /\ xopt' = [xopt EXCEPT ![Owner(k)] =
                  LET done == { j \in Trials : Owner(j) = Owner(k)
                                               /\ (j = k \/ obj_f[j].state = "returned") }
                  IN  SelectSeq([j \in 1 .. Len(startingConditions) |->
                                   IF j \in done
                                   THEN TrialResult(startingConditions[j], obj_f[j].x,
                                                    obj_f[j].opt_eval)
                                   ELSE NoResult],
                                LAMBDA e : e # NoResult)]
    /\ UNCHANGED << script, opt, config, pc, iter, i, file, rotation_model, current_search_radius,
                    current_models, startingConditions, x, scatterQ, bcastQ, gatherQ,
                    min_result_index, min_results_last, mpi_state, writeLog, readLog >>

EvaluatorNext ==
    \/ \E k \in Trials : ObjectiveFunctionInit(k)
    \/ \E k \in Trials : ObjectiveFunctionCall(k)
    \/ \E k \in Trials : RunOptimisationReturns(k)

EvaluatorSpec == EvaluatorInit /\ [][EvaluatorNext]_vars

\* The evaluators of the step that have been constructed.
Constructed == { k \in Trials : obj_f[k].state # "none" }

\* The 005-000 rotation the last call of evaluator o stored: the rotation of
\* its parameter vector composed with the inverse of the reference plate's
\* rotation relative to 005 in the model as loaded at construction.
OwnSample(o) ==
    Mul(VecRotation(o.x),
        Inverse(get_rotation(o.rotation_model_original, age_range(0), RefPlate(age_range(0)))))

\* C21: while the trials of a step run, in each dispatch mode, the rotation
\* file stays as the step found it; every evaluator's features are what it
\* read from the file, changed at most in the step's 005-000 sample, which
\* holds the candidate of the evaluator's own last call; and the cost of an
\* evaluator's last call is that of its own candidate, whatever candidates
\* the other trials of the step have set.
C21_TrialsIsolated ==
    /\ ~file.torn
    /\ file.features = SetupFeatures
    /\ \A k \in Constructed :
          LET o == obj_f[k]
          IN  /\ o.rotation_model_original = file.features
              /\ o.calls = 0 => o.rotation_features_updated = file.features
              /\ o.calls >= 1 =>
                    /\ o.rotation_features_updated =
                          UpdatedFeatures(file.features, age_range(0), OwnSample(o))
                    /\ o.opt_eval = 3 * VecRotation(o.x)[1] + VecRotation(o.x)[2]

\* Two trials of one step are alive at the same time with different
\* candidates set.
C21_Witness ==
    \E j, k \in Trials :
       /\ j # k
       /\ obj_f[j].state = "optimize"
       /\ obj_f[k].state = "optimize"
       /\ obj_f[j].calls >= 1
       /\ obj_f[k].calls >= 1
       /\ obj_f[j].x # obj_f[k].x

\* C22: after any sequence of calls of one evaluator, its 005-000 sample
\* is C_last * inverse(R_orig), with R_orig from the model as loaded at
\* construction; and the cost of the last call is the cost of the features
\* as loaded with that sample, so it does not depend on the vectors
\* evaluated before.
C22_NoFeedback ==
    \A k \in Constructed :
       LET o == obj_f[k]
       IN  o.calls >= 1 =>
              /\ Sample005(o.rotation_features_updated, age_range(0)) = OwnSample(o)
              /\ o.opt_eval =
                    CostOfModel(UpdatedFeatures(o.rotation_model_original, age_range(0),
                                                OwnSample(o)))

\* An evaluator has been called with a vector after a call with another.
C22_Witness ==
    \E k \in Constructed :
       /\ obj_f[k].calls >= 2
       /\ obj_f[k].before # "none"
       /\ obj_f[k].before # obj_f[k].x
       /\ OwnSample(obj_f[k]) # VecRotation(obj_f[k].x)

-----------------------------------------------------------------------------
(* The campaign when no process raises an exception.                       *)

FailureFreeNext ==
    \/ \E r \in Ranks : SetupBegin(r)
    \/ \E r \in Ranks : SetupEnd(r)
    \/ \E r \in Ranks : LoadContext(r)
    \/ \E r \in Ranks : RootScatter(r)
    \/ \E r \in Ranks : RootBcast(r)
    \/ \E r \in Ranks : WorkerScatter(r)
    \/ \E r \in Ranks : WorkerBcast(r)
    \/ \E r \in Ranks : RunTrial(r)
    \/ \E r \in Ranks : GatherSend(r)
    \/ \E r \in Ranks : GatherRoot(r)
    \/ \E r \in Ranks : MapDone(r)
    \/ \E r \in Ranks : SelectBest(r)
    \/ \E r \in Ranks : UpdateBegin(r)
    \/ \E r \in Ranks : UpdateEnd(r)
    \/ \E r \in Ranks : LoopEnd(r)

FailureFreeSpec == Init /\ [][FailureFreeNext]_vars

\* The parameter vector of the result SelectBest chose: xopt[min_result_index].
WinningVector(r) == xopt[r][min_result_index + 1].xopt

\* The reference plate's rotation relative to 005 at the age of the step
\* rank r is in, in the rotation model loaded at the start of the step.
StepRefRel005(r) ==
    get_rotation(rotation_model, ref_rotation_start_age(r),
                 RefPlate(ref_rotation_start_age(r)))

\* C23 (as amended): what the update of the step for age t writes has, as
\* the 005-000 sample at time t, W * inverse(R(t, ref rel 005)), where W is
\* the rotation of the selected result's parameter vector rounded to two
\* decimals and R is from the rotation model loaded at the start of the
\* step; so the reference plate's rotation relative to 000 at t is W; and
\* the file on disk is what the last write wrote.
C23_SampleIsRoundedWinner ==
    /\ \A r \in Ranks :
          pc[r] = "update_write" =>
             LET t == ref_rotation_start_age(r)
                 W == FiniteRotation(round2(VecAngle(WinningVector(r))))
             IN  /\ file.pending = writeLog[Len(writeLog)].features
                 /\ Sample005(file.pending, t) = Mul(W, Inverse(StepRefRel005(r)))
                 /\ RefPlateRel000(file.pending, t) = W
    /\ (Len(writeLog) >= 1 /\ ~file.torn) =>
          /\ writeLog[Len(writeLog)].done
          /\ file.features = writeLog[Len(writeLog)].features

\* The update of the second step, under mpi4py with two processes, where the
\* selected result is not the first of the list and its vector has digits
\* beyond the second decimal.
C23_Witness ==
    /\ pc[0] = "update_write"
    /\ iter[0] = 2
    /\ config.mpi_size = 2
    /\ min_result_index >= 1
    /\ WinningVector(0) = "va"
    /\ StepRefRel005(0) # Identity

\* C23 (as claimed): the sample written is W * inverse(R(t, ref rel 005))
\* with W the rotation of the selected result's parameter vector itself.
C23_SampleIsWinner ==
    \A r \in Ranks :
       pc[r] = "update_write" =>
          LET t == ref_rotation_start_age(r)
              W == VecRotation(WinningVector(r))
          IN  /\ Sample005(file.pending, t) = Mul(W, Inverse(StepRefRel005(r)))
              /\ RefPlateRel000(file.pending, t) = W

\* C24: at the first step and at every step whose reference plate is that
\* of the step processed before it, the search radius and the model count
\* are the configured search_radius and models, whatever was widened at
\* earlier steps.
C24_WideningIsTemporary ==
    \A r \in Ranks :
        (iter[r] >= 1 /\ ~RefPlateSwitched(iter[r] - 1)) =>
           /\ current_search_radius = config.search_radius
           /\ current_models = config.models

\* The step after a widened step: the reference plate switched one step
\* earlier and is unchanged now.
C24_Witness ==
    /\ iter[0] >= 2
    /\ config.expand
    /\ config.search = "Initial"
    /\ config.search_radius = search_radius_default
    /\ RefPlateSwitched(iter[0] - 2)
    /\ ~RefPlateSwitched(iter[0] - 1)
    /\ current_search_radius = search_radius_default
    /\ current_models = config.models

\* The coordinating process r is selecting the best trial of its step or
\* updating the rotation file with it.
Selecting(r) == IsCoordinator(r) /\ pc[r] \in {"select", "update", "update_write"}

\* C25: in each dispatch mode, while the coordinating process selects the
\* best trial of a step or updates the rotation file, no process is still
\* running trials of the step: every other process has run its whole list,
\* has handed its results over and is back at the head of the loop (or has
\* left it after the last step), no result is in flight, and the coordinating process holds a result for
\* every starting vector of the step.
C25_SelectAfterAllTrials ==
    \A r \in Ranks :
       Selecting(r) =>
          /\ \A k \in 1 .. Len(startingConditions) :
                \E n \in 1 .. Len(xopt[r]) : xopt[r][n].x0 = startingConditions[k]
          /\ Len(xopt[r]) = Len(startingConditions)
          /\ \A q \in Ranks \ {r} :
                /\ pc[q] \in {"loop", "done"}
                /\ iter[q] = iter[r]
                /\ gatherQ[q] = << >>
                /\ scatterQ[q] = << >>
                /\ bcastQ[q] = << >>

\* Selection under mpi4py with two processes, each of which ran trials.
C25_Witness ==
    /\ config.use_parallel = MPI4PY
    /\ config.mpi_size = 2
    /\ pc[0] = "select"
    /\ pc[1] = "loop"
    /\ iter[0] = 2
    /\ Len(x[0]) >= 1
    /\ Len(xopt[0]) > Len(x[0])

-----------------------------------------------------------------------------
(* The stand-alone scripts of the repository.  While one of them is        *)
(* followed no campaign runs.                                              *)

campaign == << config, pc, iter, i, file, rotation_model, current_search_radius,
               current_models, startingConditions, x, xopt, scatterQ, bcastQ,
               gatherQ, min_result_index, min_results_last, mpi_state, writeLog,
               readLog, opt, obj_f >>

NoCampaign ==
    /\ config \in TrialConfigs
    /\ pc = [r \in Ranks |-> "done"]
    /\ iter = [r \in Ranks |-> 0]
    /\ i = [r \in Ranks |-> -1]
    /\ file = [features |-> << >>, torn |-> FALSE, pending |-> << >>]
    /\ rotation_model = << >>
    /\ current_search_radius = 0
    /\ current_models = 0
    /\ startingConditions = << >>
    /\ x = [r \in Ranks |-> << >>]
    /\ xopt = [r \in Ranks |-> << >>]
    /\ scatterQ = [r \in Ranks |-> << >>]
    /\ bcastQ = [r \in Ranks |-> << >>]
    /\ gatherQ = [r \in Ranks |-> << >>]
    /\ min_result_index = -1
    /\ min_results_last = NoResult
    /\ mpi_state = [r \in Ranks |-> "none"]
    /\ writeLog = << >>
    /\ readLog = [r \in Ranks |-> NoRead]
    /\ opt = NoOpt
    /\ obj_f = NoObjF

-----------------------------------------------------------------------------
(* combine_rotation_files.py: the rotation features the optimisation       *)
(* needs, found by following plate circuits from the required plate ids.   *)

MaxFeatures == 3    \* largest number of features in the input rotation files

CombinePlates == {101, 201, 701}

\* A feature of the input files: a rotation feature (fixed plate, moving
\* plate), or one that has no total reconstruction pole.
CombineFeatures ==
    [pole : {TRUE}, fixed : CombinePlates, moving : CombinePlates]
      \cup { [pole |-> FALSE, fixed |-> -1, moving |-> -1] }

\* Lines 60-73 with line 73 in force: every feature is also listed under
\* its fixed plate.
plate_circuits_both_ways(features, plate) ==
    SelectSeq([k \in 1 .. Len(features) |->
                 IF features[k].pole /\ features[k].moving = plate
                 THEN [fixed |-> features[k].fixed, index |-> k]
                 ELSE IF features[k].pole /\ features[k].fixed = plate
                      THEN [fixed |-> features[k].moving, index |-> k]
                      ELSE [fixed |-> -1, index |-> 0]],
              LAMBDA e : e.index # 0)

\* Lines 60-72: plate_circuits.get(plate), the (fixed plate, feature index)
\* pairs of the rotation features whose moving plate is the plate, in the
\* order of the features.
plate_circuits(features, plate) ==
    SelectSeq([k \in 1 .. Len(features) |->
                 IF features[k].pole /\ features[k].moving = plate
                 THEN [fixed |-> features[k].fixed, index |-> k]
                 ELSE [fixed |-> -1, index |-> 0]],
              LAMBDA e : e.index # 0)

\* Lines 18-76 have run: the required plate ids are collected, the rotation
\* files are read, nothing is visited.
CombineInit ==
    /\ NoCampaign
    /\ \E n \in 0 .. MaxFeatures, subduction \in SUBSET {201} :
       \E features \in [1 .. n -> CombineFeatures] :
          script = [name |-> "combine_rotation_files",
                    required_plate_ids |-> {701} \cup subduction,
                    rotation_features |-> features,
                    rotation_required |-> [k \in 1 .. n |-> FALSE],
                    visited_plate_ids |-> {},
                    todo |-> {701} \cup subduction,
                    stack |-> << >>,
                    calls |-> 0,
                    state |-> "visiting",
                    written |-> << >>]

\* Line 89-90: the loop takes the next required plate id (a set is iterated
\* in no particular order) and calls visit_plate_circuit with it.
VisitRequired ==
    /\ script.name = "combine_rotation_files"
    /\ script.state = "visiting"
    /\ script.stack = << >>
    /\ \E id \in script.todo :
          script' = [script EXCEPT
                       !.todo = script.todo \ {id},
                       !.stack = << [moving_plate_id |-> id, entered |-> FALSE, next |-> 1] >>,
                       !.calls = script.calls + 1]
    /\ UNCHANGED campaign

\* Lines 78-87: one step of the innermost call of visit_plate_circuit: the
\* test of line 79 on entry, then one turn of the loop of line 85 (which
\* calls visit_plate_circuit for the fixed plate) or the return.
visit_plate_circuit ==
    /\ script.name = "combine_rotation_files"
    /\ script.stack # << >>
    /\ LET d == Len(script.stack)
           f == script.stack[d]
           moving_plate_circuits == plate_circuits(script.rotation_features, f.moving_plate_id)
       IN  IF ~f.entered
           THEN IF f.moving_plate_id \in script.visited_plate_ids
                THEN script' = [script EXCEPT !.stack = SubSeq(script.stack, 1, d - 1)]
                ELSE script' = [script EXCEPT
                                  !.visited_plate_ids = script.visited_plate_ids
                                                          \cup {f.moving_plate_id},
                                  !.stack[d].entered = TRUE]
           ELSE IF f.next > Len(moving_plate_circuits)
                THEN script' = [script EXCEPT !.stack = SubSeq(script.stack, 1, d - 1)]
                ELSE script' = [script EXCEPT
                                  !.rotation_required[moving_plate_circuits[f.next].index] = TRUE,
                                  !.calls = script.calls + 1,
                                  !.stack = [script.stack EXCEPT ![d].next = f.next + 1]
                                            \o << [moving_plate_id |->
                                                      moving_plate_circuits[f.next].fixed,
                                                   entered |-> FALSE, next |-> 1] >>]
    /\ UNCHANGED campaign

\* Lines 93-98: the required features are written in the order they were
\* read.
WriteRequired ==
    /\ script.name = "combine_rotation_files"
    /\ script.state = "visiting"
    /\ script.stack = << >>
    /\ script.todo = {}
    /\ script' = [script EXCEPT !.state = "written", !.written =
                    SelectSeq([k \in 1 .. Len(script.rotation_features) |->
                                  IF script.rotation_required[k] THEN k ELSE 0],
                              LAMBDA k : k # 0)]
    /\ UNCHANGED campaign

CombineNext ==
    \/ VisitRequired
    \/ visit_plate_circuit
    \/ WriteRequired

CombineSpec == CombineInit /\ [][CombineNext]_vars

RECURSIVE ReachableFrom(_, _)
\* The plates reached from a set of plates by following links from the
\* moving plate of a rotation feature to its fixed plate, any number of
\* times.
ReachableFrom(plates, features) ==
    LET more == plates \cup { features[k].fixed :
                                k \in { j \in 1 .. Len(features) :
                                          features[j].pole /\ features[j].moving \in plates } }
    IN  IF more = plates THEN plates ELSE ReachableFrom(more, features)

-----------------------------------------------------------------------------
(* continent_fragmentation.py: the perimeter-to-area ratio of the          *)
(* continents at every age, normalised by its maximum over the age range.  *)

MaxAges == 3    \* largest number of ages in the age range
MaxFrag == 3    \* largest perimeter-to-area ratio, in units of the smallest

\* Line 154: total_perimeter / total_area of the continents at an age, a
\* positive number when the continents have area.
calculate_fragmentation(raw, age) == raw[age]

\* Lines 17-33: __init__ has been called for an age range and continents
\* whose ratio at every age is positive; the object has no attribute yet
\* but data_dir, continent_features and continent_features_are_topologies.
FragmentationInit ==
    /\ NoCampaign
    /\ \E n \in 1 .. MaxAges, topologies \in BOOLEAN :
       \E raw \in [1 .. n -> 1 .. MaxFrag] :
          script = [name |-> "continent_fragmentation",
                    state |-> "init",
                    continent_features_are_topologies |-> topologies,
                    age_range |-> n,
                    raw |-> raw,
                    attributes |-> {},
                    fragmentations |-> << >>,
                    max_fragmentation |-> 0,
                    age |-> 0,
                    fragmentation |-> -1]

\* Lines 37-51: the contouring grid, and with it debug_contour_polygons,
\* is set up only when the continents are static polygons.
ContouringSetup ==
    /\ script.name = "continent_fragmentation"
    /\ script.state = "init"
    /\ script' = [script EXCEPT
                    !.state = "grid",
                    !.attributes = IF ~script.continent_features_are_topologies
                                   THEN {"contouring_points", "debug_contour_polygons"}
                                   ELSE {}]
    /\ UNCHANGED campaign

\* Lines 53-68: the ratio at every age of the range and its maximum.
CalculateFragmentations ==
    /\ script.name = "continent_fragmentation"
    /\ script.state = "grid"
    /\ LET fragmentations == [age \in 1 .. script.age_range |->
                                 calculate_fragmentation(script.raw, age)]
       IN  script' = [script EXCEPT
                        !.state = "calculated",
                        !.fragmentations = fragmentations,
                        !.max_fragmentation =
                            CHOOSE v \in {fragmentations[a] : a \in 1 .. script.age_range} :
                               \A a \in 1 .. script.age_range : fragmentations[a] <= v]
    /\ UNCHANGED campaign

\* Lines 74-76: "if self.debug_contour_polygons:" reads an attribute; the
\* read raises AttributeError when the attribute was never set, otherwise
\* the flag is False and __init__ returns.
DebugOutput ==
    /\ script.name = "continent_fragmentation"
    /\ script.state = "calculated"
    /\ script' = [script EXCEPT
                    !.state = IF "debug_contour_polygons" \in script.attributes
                              THEN "constructed"
                              ELSE "AttributeError"]
    /\ UNCHANGED campaign

\* Line 87: fragmentations[age] / max_fragmentation, in thousandths.
normalised(fragmentations, max_fragmentation, age) ==
    (fragmentations[age] * 1000) \div max_fragmentation

\* Lines 79-87: get_fragmentation(age) on the constructed object.
get_fragmentation(age) ==
    /\ script.name = "continent_fragmentation"
    /\ script.state = "constructed"
    /\ script' = [script EXCEPT
                    !.age = age,
                    !.fragmentation = normalised(script.fragmentations,
                                                 script.max_fragmentation, age)]
    /\ UNCHANGED campaign

FragmentationNext ==
    \/ ContouringSetup
    \/ CalculateFragmentations
    \/ DebugOutput
    \/ \E age \in 1 .. script.age_range : get_fragmentation(age)

FragmentationSpec == FragmentationInit /\ [][FragmentationNext]_vars

\* C28 (as claimed): for both values of continent_features_are_topologies
\* the construction completes, and on the constructed object the normalised
\* fragmentation is defined for every age of the range, is at most 1.0 at
\* every age and is 1.0 at one of them.
C28_ConstructsAndNormalises ==
    script.name = "continent_fragmentation" =>
       /\ script.state # "AttributeError"
       /\ script.state = "constructed" =>
             /\ DOMAIN script.fragmentations = 1 .. script.age_range
             /\ \A age \in 1 .. script.age_range :
                   normalised(script.fragmentations, script.max_fragmentation, age) <= 1000
             /\ \E age \in 1 .. script.age_range :
                   normalised(script.fragmentations, script.max_fragmentation, age) = 1000
             /\ script.fragmentation # -1 => script.fragmentation <= 1000

\* What the code does keep: with static polygons the construction completes
\* and the normalised fragmentation is as claimed; with topologies it never
\* completes.
FragmentationOfStaticPolygons ==
    script.name = "continent_fragmentation" =>
       /\ script.state = "AttributeError" <=> 
             (script.continent_features_are_topologies /\ script.state \notin {"init", "grid", "calculated"})
       /\ script.state = "constructed" =>
             /\ \A age \in 1 .. script.age_range :
                   normalised(script.fragmentations, script.max_fragmentation, age) <= 1000
             /\ \E age \in 1 .. script.age_range :
                   normalised(script.fragmentations, script.max_fragmentation, age) = 1000


-----------------------------------------------------------------------------
(* insert_optimised_rotations_into_original_files.py: the optimised        *)
(* 005-000 sequence is merged into every sequence of the original files    *)
(* that is relative to plate 000.  One rotation feature is followed.       *)

MaxTime == 2    \* latest sample time of a sequence

SequenceTimes == 0 .. MaxTime

\* Two ways of giving a rotation to every sample time.
RotationAt(choice, t) ==
    IF t = 0 THEN Identity
    ELSE IF (t + choice) % 2 = 0 THEN <<2, 1, 3>> ELSE <<1, 3, 2>>

\* An irregular sampling: samples in strictly ascending time, each enabled
\* or disabled.
Sampling(presence, choice) ==
    SelectSeq([k \in 1 .. MaxTime + 1 |->
                 [time |-> k - 1, rot |-> RotationAt(choice, k - 1),
                  enabled |-> presence[k - 1] = "enabled",
                  present |-> presence[k - 1] # "none"]],
              LAMBDA s : s.present)

\* rotation_sequence.get_enabled_time_samples() (lines 66-67, 86)
get_enabled_time_samples(samples) == SelectSeq(samples, LAMBDA s : s.enabled)

\* rotation_sequence.get_time_samples(): the disabled samples too.
get_time_samples(samples) == samples

\* RotationModel(...).get_rotation(time, plate, fixed_plate_id=0) for a
\* plate with one sequence: the sample at the time when there is an enabled
\* one, a rotation made of the two enabled samples around the time when
\* there are such, the identity outside the sequence.
sequence_get_rotation(samples, time) ==
    LET enabled == get_enabled_time_samples(samples)
        at      == { k \in 1 .. Len(enabled) : enabled[k].time = time }
        before  == { k \in 1 .. Len(enabled) : enabled[k].time < time }
        after   == { k \in 1 .. Len(enabled) : enabled[k].time > time }
    IN  IF at # {} THEN enabled[CHOOSE k \in at : TRUE].rot
        ELSE IF before # {} /\ after # {}
             THEN Mul(enabled[CHOOSE k \in before : \A j \in before : j <= k].rot,
                      enabled[CHOOSE k \in after : \A j \in after : k <= j].rot)
             ELSE Identity

RECURSIVE sort_by_time(_)
\* list.sort(key = lambda sample: sample.get_time()): ascending and stable.
sort_by_time(samples) ==
    IF samples = << >> THEN << >>
    ELSE LET first == CHOOSE k \in 1 .. Len(samples) :
                         /\ \A j \in 1 .. Len(samples) : samples[k].time <= samples[j].time
                         /\ \A j \in 1 .. k - 1 : samples[j].time # samples[k].time
         IN  << samples[first] >>
             \o sort_by_time(SubSeq(samples, 1, first - 1)
                             \o SubSeq(samples, first + 1, Len(samples)))

\* The product taken the other way round.
adjusted_rotation_on_the_right(absolute_plate_motion_rotation, rotation) ==
    Mul(rotation, absolute_plate_motion_rotation)

\* Line 122: rotation = absolute_plate_motion_rotation * rotation
adjusted_rotation(absolute_plate_motion_rotation, rotation) ==
    Mul(absolute_plate_motion_rotation, rotation)

\* Lines 38-72 have run: the original files and the optimised 005-000
\* sequence are read (the optimisation workflow writes one such sequence,
\* every sample enabled); the loop of line 79 is at one rotation feature.
InsertInit ==
    /\ NoCampaign
    /\ \E presence \in [SequenceTimes -> {"none", "enabled", "disabled"}],
          optimised \in [SequenceTimes -> {"none", "enabled"}],
          choice, optimised_choice \in {0, 1},
          fixed \in {0, 701}, moving \in {101, 999} :
          /\ \E t \in SequenceTimes : optimised[t] = "enabled"
          /\ script = [name |-> "insert_optimised_rotations",
                       state |-> "feature",
                       fixed_plate_id |-> fixed,
                       moving_plate_id |-> moving,
                       original |-> Sampling(presence, choice),
                       absolute_plate_motion |-> Sampling(optimised, optimised_choice),
                       new_rotation_samples |-> << >>,
                       total_reconstruction_pole |-> Sampling(presence, choice)]

\* Line 85 is false: the feature is left as it is.
FeatureKept ==
    /\ script.name = "insert_optimised_rotations"
    /\ script.state = "feature"
    /\ ~(script.fixed_plate_id = 0 /\ script.moving_plate_id # 999)
    /\ script' = [script EXCEPT !.state = "kept"]
    /\ UNCHANGED campaign

\* Lines 85-104: the enabled samples of the sequence, followed by one
\* interpolated sample for every 005-000 sample time the sequence has not.
AddSampleTimes ==
    /\ script.name = "insert_optimised_rotations"
    /\ script.state = "feature"
    /\ script.fixed_plate_id = 0 /\ script.moving_plate_id # 999
    /\ LET rotation_samples == get_enabled_time_samples(script.original)
           rotation_sample_times == { rotation_samples[k].time : k \in 1 .. Len(rotation_samples) }
           absolute_samples == get_enabled_time_samples(script.absolute_plate_motion)
           missing == SelectSeq(absolute_samples, LAMBDA s : s.time \notin rotation_sample_times)
       IN  script' = [script EXCEPT
                        !.state = "merged",
                        !.new_rotation_samples =
                            rotation_samples
                            \o [k \in 1 .. Len(missing) |->
                                  [time |-> missing[k].time,
                                   rot |-> sequence_get_rotation(script.original, missing[k].time),
                                   enabled |-> TRUE, present |-> TRUE]]]
    /\ UNCHANGED campaign

\* Lines 106-107
SortSamples ==
    /\ script.name = "insert_optimised_rotations"
    /\ script.state = "merged"
    /\ script' = [script EXCEPT
                    !.state = "sorted",
                    !.new_rotation_samples = sort_by_time(script.new_rotation_samples)]
    /\ UNCHANGED campaign

\* Lines 109-123
AddAbsoluteRotations ==
    /\ script.name = "insert_optimised_rotations"
    /\ script.state = "sorted"
    /\ script' = [script EXCEPT
                    !.state = "adjusted",
                    !.new_rotation_samples =
                        [k \in 1 .. Len(script.new_rotation_samples) |->
                           [script.new_rotation_samples[k] EXCEPT
                              !.rot = adjusted_rotation(
                                         sequence_get_rotation(script.absolute_plate_motion,
                                                               script.new_rotation_samples[k].time),
                                         script.new_rotation_samples[k].rot)]]]
    /\ UNCHANGED campaign

\* Lines 125-132
StoreSequence ==
    /\ script.name = "insert_optimised_rotations"
    /\ script.state = "adjusted"
    /\ script' = [script EXCEPT
                    !.state = "stored",
                    !.total_reconstruction_pole = script.new_rotation_samples]
    /\ UNCHANGED campaign

InsertNext ==
    \/ FeatureKept
    \/ AddSampleTimes
    \/ SortSamples
    \/ AddAbsoluteRotations
    \/ StoreSequence

InsertSpec == InsertInit /\ [][InsertNext]_vars

TimesOf(samples) == { samples[k].time : k \in 1 .. Len(samples) }

\* The rewritten sequence is in strictly ascending time, and every sample is
\* the optimised 005-000 rotation at its time times the rotation the
\* original sequence has (or interpolates) at that time.
RewrittenAscendingAndAdjusted ==
    LET new == script.total_reconstruction_pole
    IN  /\ \A k \in 1 .. Len(new) - 1 : new[k].time < new[k + 1].time
        /\ \A k \in 1 .. Len(new) :
              new[k].rot = Mul(sequence_get_rotation(script.absolute_plate_motion, new[k].time),
                               sequence_get_rotation(script.original, new[k].time))

\* C27 (amended): the rewritten sequence of a feature with fixed plate 000
\* and moving plate other than 999 has exactly the times of the enabled
\* original samples and of the optimised 005-000 samples, no time twice, in
\* ascending order, each sample being the optimised 005-000 rotation at its
\* time composed on the left of the original or interpolated rotation.
C27_MergesEnabledSamples ==
    (script.name = "insert_optimised_rotations" /\ script.state = "stored") =>
       /\ TimesOf(script.total_reconstruction_pole)
             = TimesOf(get_enabled_time_samples(script.original))
                  \cup TimesOf(get_enabled_time_samples(script.absolute_plate_motion))
       /\ RewrittenAscendingAndAdjusted

\* A sequence with an enabled and a disabled sample has been rewritten, with
\* a 005-000 sample time it did not have, where the two rotations do not
\* commute.
C27_Witness ==
    /\ script.name = "insert_optimised_rotations"
    /\ script.state = "stored"
    /\ \E k \in 1 .. Len(script.original) : ~script.original[k].enabled
    /\ \E k \in 1 .. Len(script.original) : script.original[k].enabled
    /\ \E t \in TimesOf(script.absolute_plate_motion) :
          t \notin TimesOf(script.original)
    /\ \E k \in 1 .. Len(script.total_reconstruction_pole) :
          LET s == script.total_reconstruction_pole[k]
          IN  s.rot # Mul(sequence_get_rotation(script.original, s.time),
                          sequence_get_rotation(script.absolute_plate_motion, s.time))

\* C27 (as claimed): the times of the rewritten sequence are the union of
\* all the original sample times and the optimised 005-000 sample times.
C27_MergesAllSamples ==
    (script.name = "insert_optimised_rotations" /\ script.state = "stored") =>
       /\ TimesOf(script.total_reconstruction_pole)
             = TimesOf(get_time_samples(script.original))
                  \cup TimesOf(get_time_samples(script.absolute_plate_motion))
       /\ RewrittenAscendingAndAdjusted


-----------------------------------------------------------------------------
(* The collectives of a failure-free run under mpi4py.                     *)

Flag(b) == IF b THEN 1 ELSE 0

\* The scatters (line 316), broadcasts (319) and gathers (464) a process
\* has returned from: one of each in every iteration it has completed, and
\* those before its position in the iteration it is in.
ScattersJoined(r) ==
    iter[r] - Flag(pc[r] = "scatter")

BcastsJoined(r) ==
    iter[r] - Flag(pc[r] \in {"scatter", "bcast"})

GathersJoined(r) ==
    iter[r] - Flag(pc[r] \in {"scatter", "bcast", "run"})

\* What a process has still to do: the iterations it has not begun, and the
\* rest of the iteration it is in.
StepsLeft(r) ==
    (age_range_len - iter[r]) * (MaxX + 10)
      + (CASE pc[r] = "setup"        -> 3
           [] pc[r] = "setup_write"  -> 2
           [] pc[r] = "loop"         -> 1
           [] pc[r] = "scatter"      -> MaxX + 8
           [] pc[r] = "bcast"        -> MaxX + 7
           [] pc[r] = "run"          -> 5 + Len(x[r]) - Len(xopt[r])
           [] pc[r] = "select"       -> 4
           [] pc[r] = "update"       -> 3
           [] pc[r] = "update_write" -> 2
           [] OTHER                  -> 0)

RECURSIVE TotalStepsLeft(_)
TotalStepsLeft(n) == IF n < 0 THEN 0 ELSE StepsLeft(n) + TotalStepsLeft(n - 1)

\* Every message of a collective is matched: what rank 0 has sent to a rank
\* is what the rank has received or has waiting, one message at most, and
\* the age broadcast is the age of the rank's own iteration.
CollectivesMatch ==
    config.use_parallel = MPI4PY =>
       \A q \in Ranks \ {0} :
          /\ ScattersJoined(0) = ScattersJoined(q) + Len(scatterQ[q])
          /\ BcastsJoined(0) = BcastsJoined(q) + Len(bcastQ[q])
          /\ GathersJoined(q) = GathersJoined(0) + Len(gatherQ[q])
          /\ Len(scatterQ[q]) <= 1 /\ Len(bcastQ[q]) <= 1 /\ Len(gatherQ[q]) <= 1
          /\ iter[q] <= iter[0] /\ iter[0] <= iter[q] + 1
          /\ bcastQ[q] # << >> =>
                Head(bcastQ[q]) = age_range(iter[q] - Flag(pc[q] = "bcast"))

\* Process r is in a collective that has not returned: the scatter or the
\* broadcast on a rank whose message has not arrived, the gather on rank 0
\* with a contribution missing.
Waiting(r) ==
    /\ config.use_parallel = MPI4PY
    /\ \/ r # 0 /\ pc[r] = "loop" /\ iter[r] < age_range_len /\ scatterQ[r] = << >>
       \/ r # 0 /\ pc[r] = "bcast" /\ bcastQ[r] = << >>
       \/ /\ r = 0 /\ pc[r] = "run" /\ Len(xopt[r]) = Len(x[r])
          /\ \E q \in Ranks \ {r} : gatherQ[q] = << >>

\* No process is left waiting: while a process waits on a collective some
\* process can take a step; and when all have ended each has gone through
\* every age and no message is left.
NoneWaitsForever ==
    /\ (\E r \in Ranks : Waiting(r)) => ENABLED FailureFreeNext
    /\ (\A r \in Ranks : pc[r] = "done") =>
          \A r \in Ranks : /\ iter[r] = age_range_len
                           /\ scatterQ[r] = << >>
                           /\ bcastQ[r] = << >>
                           /\ gatherQ[r] = << >>

\* C29: in a failure-free run every process goes through the same ages in
\* step with rank 0 and joins one scatter, one broadcast and one gather per
\* step, in that order, though rank 0 rebinds i inside the step; no process
\* is left waiting on a collective, and every step of the run brings the
\* processes nearer their end, so that all of them end after the last age.
C29_CollectivesInStep ==
    /\ [](CollectivesMatch /\ NoneWaitsForever)
    /\ [][TotalStepsLeft(config.mpi_size - 1)' < TotalStepsLeft(config.mpi_size - 1)]_vars

\* Two processes under mpi4py have ended, after a last step in which rank 0
\* left i different from the index of the step.
C29_Witness ==
    /\ config.use_parallel = MPI4PY
    /\ config.mpi_size = 2
    /\ \A r \in Ranks : pc[r] = "done"
    /\ i[0] # age_range_len - 1
    /\ i[1] = age_range_len - 1
    /\ age_range_len >= 2


-----------------------------------------------------------------------------
(* One step's trials dispatched serially and under mpi4py, for the same    *)
(* starting vectors and trials whose result depends on the starting vector *)
(* alone.                                                                  *)

\* run_optimisation(x_item, ...) of a deterministic trial (lines 355-419)
run_optimisation(x_item, minf) == TrialResult(x_item, OptimumOf(x_item), minf[x_item])

\* The step's starting vectors are generated; nothing is dispatched.
DispatchInit ==
    /\ NoCampaign
    /\ \E n \in 1 .. PartMaxN, size \in 1 .. PartMaxP :
       \E minf \in [1 .. n -> 0 .. MaxCost] :
          script = [name |-> "dispatch",
                    state |-> "start",
                    mpi_size |-> size,
                    x |-> [k \in 1 .. n |-> k],
                    minf |-> minf,
                    serial |-> << >>,
                    xStartingCondition |-> [r \in 0 .. (size - 1) |-> << >>],
                    ran |-> {},
                    xopt |-> [r \in 0 .. (size - 1) |-> << >>],
                    gathered |-> << >>,
                    serial_index |-> 0,
                    gathered_index |-> 0]

\* Line 478: xopt = [run_optimisation(x_item, ...) for x_item in x]
SerialDispatch ==
    /\ script.name = "dispatch"
    /\ script.state = "start"
    /\ script' = [script EXCEPT
                    !.state = "serial",
                    !.serial = [k \in 1 .. Len(script.x) |->
                                  run_optimisation(script.x[k], script.minf)]]
    /\ UNCHANGED campaign

\* Lines 291-316: the list is divided and scattered.
DispatchScatter ==
    /\ script.name = "dispatch"
    /\ script.state = "serial"
    /\ script' = [script EXCEPT
                    !.state = "scattered",
                    !.xStartingCondition = Partition(script.x, script.mpi_size)]
    /\ UNCHANGED campaign

\* Line 456 on rank r: xopt = [run_optimisation(x_item, ...) for x_item in x]
DispatchRun(r) ==
    /\ script.name = "dispatch"
    /\ script.state = "scattered"
    /\ r \notin script.ran
    /\ script' = [script EXCEPT
                    !.ran = script.ran \cup {r},
                    !.xopt[r] = [k \in 1 .. Len(script.xStartingCondition[r]) |->
                                   run_optimisation(script.xStartingCondition[r][k],
                                                    script.minf)]]
    /\ UNCHANGED campaign

\* Lines 464-471: the gather returns on rank 0 when every rank has
\* contributed; the lists are chained in rank order.
DispatchGather ==
    /\ script.name = "dispatch"
    /\ script.state = "scattered"
    /\ script.ran = 0 .. (script.mpi_size - 1)
    /\ script' = [script EXCEPT
                    !.state = "gathered",
                    !.gathered = Flatten(script.xopt, script.mpi_size)]
    /\ UNCHANGED campaign

\* Lines 493-501 on each of the two lists.
DispatchSelect ==
    /\ script.name = "dispatch"
    /\ script.state = "gathered"
    /\ script' = [script EXCEPT
                    !.state = "selected",
                    !.serial_index = MinResultIndex(Costs(script.serial)),
                    !.gathered_index = MinResultIndex(Costs(script.gathered))]
    /\ UNCHANGED campaign

DispatchNext ==
    \/ SerialDispatch
    \/ DispatchScatter
    \/ \E r \in 0 .. (script.mpi_size - 1) : DispatchRun(r)
    \/ DispatchGather
    \/ DispatchSelect

DispatchSpec == DispatchInit /\ [][DispatchNext]_vars

\* The number of times a result is in a list.
Occurrences(list, result) == Cardinality({ k \in 1 .. Len(list) : list[k] = result })

\* C30: for the same starting vectors and deterministic trials, the list
\* gathered under mpi4py with any number of processes holds the results of
\* the serial list, each as often, in some order; and the least cost
\* selected from it is the least cost selected from the serial list.
C30_GatheredIsPermutationOfSerial ==
    script.name = "dispatch" =>
       /\ script.state \in {"gathered", "selected"} =>
             /\ Len(script.gathered) = Len(script.serial)
             /\ \A k \in 1 .. Len(script.serial) :
                   Occurrences(script.gathered, script.serial[k])
                      = Occurrences(script.serial, script.serial[k])
       /\ script.state = "selected" =>
             script.gathered[script.gathered_index].minf
                = script.serial[script.serial_index].minf

\* A selection from a gathered list that is in another order than the
\* serial one, made by more processes than one with vectors left over after
\* the even division, where the result selected is not the serial one.
C30_Witness ==
    /\ script.name = "dispatch"
    /\ script.state = "selected"
    /\ script.mpi_size >= 2
    /\ Len(script.x) % script.mpi_size # 0
    /\ script.gathered # script.serial
    /\ script.gathered[script.gathered_index] # script.serial[script.serial_index]

====
